---- MODULE Spec2Model ----
(***************************************************************************)
(* logrep server: the search worker of gen_matching_lines                  *)
(* (src/logrep/logrep_server.py).  One request scans the sorted glob of    *)
(* paths with FileReader and puts tagged records on a                      *)
(* FileNamePrependQueue.                                                   *)
(*                                                                         *)
(* Text is abstracted by what the four search terms see in it: a line is   *)
(* the set of terms that fire on its text.  The payload of a record is the *)
(* place the line was read from (path, member, line), so that two          *)
(* different lines never have the same payload.                            *)
(***************************************************************************)
EXTENDS Integers, Sequences, FiniteSets, TLC

\* ---- bounds of the model ----
MaxPaths == 2
MaxMembers == 2
MaxLines == 2
MaxCtx == 1
MaxLineNumArg == 2
MaxFirings == 2
MaxStream == 5
StreamTextSize == 500

\* ---- constants of the program ----
MINIMUM_SIZE == 1000

\* ---- RecordType ----
RT_file_path == "l"
RT_discard_before == "D"
RT_before_context == "B"
RT_pattern == "p"
RT_after_context == "A"
RT_discard_after == "d"

PayloadKinds == {RT_discard_before, RT_before_context, RT_pattern, RT_after_context, RT_discard_after}

\* the end-of-stream sentinel put by the worker, and FileNamePrependQueue.FLUSH_FILE_NAME
None == <<-1, "None", <<>>>>
FLUSH_FILE_NAME == <<-1, "FLUSH_FILE_NAME", <<>>>>
\* que.file_name = None
NoName == <<>>

\* the terms whose firing on a line's text the scan observes
Terms == {"discard_before", "pattern", "except_pattern", "discard_after"}

VARIABLES
    a,                          \* SearchArgs of the request
    files,                      \* the sorted glob: a sequence of paths
    pc,                         \* worker position: "open", "first", "main", "done"
    path_i,                     \* index of the path being scanned (0 before the first)
    member_i,                   \* FileReader._file: member open (0: none yet)
    line_i,                     \* lines of the open member already consumed
    discard_before_line_num,
    line_num,
    lines_after,
    match_found,                \* match_found_so_can_process_after_context
    before_deque,
    file_name,                  \* que.file_name
    items,                      \* what the underlying queue received, in order
    trace,                      \* history: for each item, the logical file open when it was put and the item given to put()
    reads,                      \* history: the lines the main pass has read
    handles,                    \* the files, member streams and archives the worker holds open
    fault,                      \* history: where the worker's exception was raised (NoFault: nowhere)
    task,                       \* the request task: "waiting", "joining", "cancelled", "ended" ("none": not modelled)
    taken,                      \* number of queue items que.get has returned to the request task
    got,                        \* the items gen_matching_lines has yielded to search_logs
    run,                        \* 1: the request runs for the first time, 2: for the second time
    first_got,                  \* history: what the first run yielded
    list_of_lists,
    total,                      \* total_line_size_in_list_of_lists
    frames,                     \* the strings search_logs has yielded
    size,                       \* len() of every text
    config,                     \* the configuration file: top-level options and profile tables
    request,                    \* the search request: profile and supplied options
    response,                   \* the answer of the endpoint (NoResponse: not answered yet)
    method,                     \* the endpoint that answered: "GET" or "POST" ("": none yet)
    file,                       \* the configuration file: status, version of its content, mtime, size
    loader,                     \* ConfigLoader: _config_cache, _config_mtime, _config_size
    heap,                       \* the mappings the loader has built, by object identity
    readers,                    \* the threads in _get_fresh_profile_to_settings: position and locals
    arg,                        \* the arguments of a function call
    ret,                        \* what the call returned (NoCall: not called yet)
    client,                     \* the client's render loop: arguments, records received, loop variables, lines printed
    database                    \* the sqlite database of a Logger: the log table and its rows

workerVars == <<a, files, pc, path_i, member_i, line_i, discard_before_line_num, line_num,
                lines_after, match_found, before_deque, file_name, items, trace, reads>>
taskVars == <<task, taken, got, run, first_got>>
batchVars == <<list_of_lists, total, frames, size>>

loaderVars == <<file, loader, heap, readers>>
callVars == <<arg, ret, client, database>>
apiVars == <<config, request, response, method, loaderVars, callVars>>

vars == <<workerVars, handles, fault, taskVars, batchVars, apiVars>>

\* ---------------------------------------------------------------------------
\* The request and the files
\* ---------------------------------------------------------------------------

\* SearchArgs as gen_matching_lines sees them.  discard_before / discard_after:
\* "none" (empty), "rx" (compiled re.Pattern), "str" (literal string) or "num"
\* (the literal string discard_before_line_num=N / discard_after_line_num=N).
SearchArgsSet ==
    { [discard_before |-> db, discard_before_n |-> dbn,
       discard_after |-> da, discard_after_n |-> dan,
       before_context |-> b, after_context |-> c, files_with_matches |-> f] :
        db \in {"none", "rx", "str", "num"}, dbn \in 0..MaxLineNumArg,
        da \in {"none", "str", "num"}, dan \in 0..MaxLineNumArg,
        b \in 0..MaxCtx, c \in 0..MaxCtx, f \in BOOLEAN }

\* the requests drawn: N > 0 goes with the numeric form, and a
\* files_with_matches request is drawn without context lines
DrawnArgs(x) ==
    /\ (x.discard_before = "num") <=> (x.discard_before_n > 0)
    /\ (x.discard_after = "num") <=> (x.discard_after_n > 0)
    /\ x.files_with_matches => (x.before_context = 0 /\ x.after_context = 0)

\* shapes of the glob: the glob matches plain files or one archive; a shape
\* gives the number of lines of every member (a plain file is one stream)
PlainShapes == { [archive |-> FALSE, lens |-> <<n>>] : n \in 0..MaxLines }

ArchiveShapes ==
    { [archive |-> TRUE, lens |-> l] : l \in UNION { [1..k -> 0..MaxLines] : k \in 1..MaxMembers } }

GlobShapes ==
    UNION { [1..n -> PlainShapes] : n \in 1..MaxPaths } \cup { <<sh>> : sh \in ArchiveShapes }

\* a glob that matches a plain file of one line and, sorted after it, an archive
MixedShapes == { <<pl, ar>> : pl \in { q \in PlainShapes : q.lens = <<1>> }, ar \in ArchiveShapes }

\* the places where a term can fire: (path, member, line, term).  A term that
\* the request does not set fires nowhere.
Slots(sh, x) ==
    { s \in { <<p, m, l, t>> : p \in 1..Len(sh), m \in 1..MaxMembers, l \in 1..MaxLines, t \in Terms } :
        /\ s[2] <= Len(sh[s[1]].lens)
        /\ s[3] <= sh[s[1]].lens[s[2]]
        /\ (s[4] = "discard_before") => (x.discard_before # "none")
        /\ (s[4] = "discard_after") => (x.discard_after # "none") }

RECURSIVE SubsetsUpTo(_, _)
SubsetsUpTo(S, k) ==
    IF k = 0 THEN {{}}
    ELSE LET R == SubsetsUpTo(S, k - 1) IN R \cup { T \cup {e} : T \in R, e \in S }

\* at most MaxFirings firings in the files of a request; except_pattern is
\* drawn on lines on which pattern fires, where it makes a difference
Firings(sh, x) ==
    { F \in SubsetsUpTo(Slots(sh, x), MaxFirings) :
        \A s \in F : (s[4] = "except_pattern") => (<<s[1], s[2], s[3], "pattern">> \in F) }

\* the glob with the given shape in which exactly the terms of F fire
MakeFiles(sh, F) ==
    [ p \in 1..Len(sh) |->
        [ archive |-> sh[p].archive,
          members |-> [ m \in 1..Len(sh[p].lens) |->
                          [ l \in 1..sh[p].lens[m] |->
                              { t \in Terms : <<p, m, l, t>> \in F } ] ] ] ]

\* ---------------------------------------------------------------------------
\* FileReader
\* ---------------------------------------------------------------------------

Members(p) == files[p].members

\* FileReader.name: the path, or path#member for an archive
Name(p, m) == IF files[p].archive THEN <<p, m>> ELSE <<p, 0>>

\* the member _iter_file yields the next line from once the open member is
\* exhausted: empty members are opened and passed over (0: no line is left)
NextMember(p, m) ==
    LET later == { k \in (m + 1)..Len(Members(p)) : Len(Members(p)[k]) > 0 }
    IN IF later = {} THEN 0 ELSE CHOOSE k \in later : \A j \in later : k <= j

HasLine(p, m, l) == (m > 0 /\ l < Len(Members(p)[m])) \/ NextMember(p, m) # 0

\* reader position after next(): <<member, line>>
ReadPos(p, m, l) ==
    IF m > 0 /\ l < Len(Members(p)[m]) THEN <<m, l + 1>> ELSE <<NextMember(p, m), 1>>

\* fault = NoFault: the worker has raised no exception
NoFault == <<>>

\* __enter__: a plain (or compressed) file is opened at once, an archive opens
\* its outer file only
Enter(h, p) ==
    h \cup (IF files[p].archive THEN {<<"outer", p>>} ELSE {<<"file", p, 0>>})

\* (mutant) __exit__ closes the member stream and leaves the archive open
Exit_KeepOuter(h) == { x \in h : x[1] = "outer" }

\* __exit__: closes _file and _outer_file
Exit(h) == {}

\* _iter_file moving from member m to member k of the archive p: every member
\* on the way is opened after the one before it was closed
OpenMembers(h, p, m, k) ==
    IF k # m THEN { x \in h : x[1] # "file" } \cup {<<"file", p, k>>} ELSE h

\* rewind: __exit__ and __enter__ for an archive, _file.seek(0) otherwise
Rewind(h, p) == IF files[p].archive THEN Enter(Exit(h), p) ELSE h

\* que.file_name after the on_file_open calls made while moving from member m to member k
NameAfterOpen(p, m, k, fn) == IF k # m THEN Name(p, k) ELSE fn

\* (mutant) the line counter starts again at every member of an archive
NextLineNum_PerMember(n, m, k) == IF k # m THEN 1 ELSE n + 1

\* the line counter of the two loops: line_num += 1 for every line the reader
\* yields (n: the counter, m: the member open before the read, k: after it)
NextLineNum(n, m, k) == n + 1

\* ---------------------------------------------------------------------------
\* FileNamePrependQueue
\* ---------------------------------------------------------------------------

\* (mutant) put without the test "item is not None": the sentinel flushes a pending name
Put_NoSentinelCheck(q, item, cur) ==
    LET q1 == IF q.file_name # NoName
              THEN [ items |-> Append(q.items, <<0, RT_file_path, q.file_name>>),
                     file_name |-> NoName,
                     trace |-> Append(q.trace, [file |-> cur, cause |-> item]) ]
              ELSE q
    IN IF item # FLUSH_FILE_NAME
       THEN [ q1 EXCEPT !.items = Append(@, item),
                        !.trace = Append(@, [file |-> cur, cause |-> item]) ]
       ELSE q1

\* FileNamePrependQueue.put: q is the queue (items, file_name) with its history,
\* cur the logical file open in the reader
Put(q, item, cur) ==
    LET q1 == IF q.file_name # NoName /\ item # None
              THEN [ items |-> Append(q.items, <<0, RT_file_path, q.file_name>>),
                     file_name |-> NoName,
                     trace |-> Append(q.trace, [file |-> cur, cause |-> item]) ]
              ELSE q
    IN IF item # FLUSH_FILE_NAME
       THEN [ q1 EXCEPT !.items = Append(@, item),
                        !.trace = Append(@, [file |-> cur, cause |-> item]) ]
       ELSE q1

\* while before_deque: que.put(before_deque.popleft())
RECURSIVE PutAll(_, _, _)
PutAll(q, dq, cur) ==
    IF dq = <<>> THEN q ELSE PutAll(Put(q, Head(dq), cur), Tail(dq), cur)

\* (mutant) a deque without maxlen
DequeAppend_Unbounded(dq, n, e) == Append(dq, e)

\* deque(maxlen=n).append
DequeAppend(dq, n, e) ==
    IF Len(dq) < n THEN Append(dq, e) ELSE Append(Tail(dq), e)

\* ---------------------------------------------------------------------------
\* _gen_matching_lines
\* ---------------------------------------------------------------------------

\* lines 527-534: the numeric boundaries parsed from the reserved literal forms
InitialDiscardBeforeLineNum(x) == IF x.discard_before = "num" THEN x.discard_before_n ELSE 0
DiscardAfterLineNum(x) == IF x.discard_after = "num" THEN x.discard_after_n ELSE 0

\* line 546: discard_before_line_num == 0 and discard_before_rx or discard_before_str
\* (the reserved numeric form is a discard_before_str too)
FirstPassCond(x, dbl) ==
    (dbl = 0 /\ x.discard_before = "rx") \/ x.discard_before \in {"str", "num"}

\* line 551: (discard_before_rx and rx.search(line)) or (discard_before_str and str in line)
DiscardBeforeTermFires(x, line) ==
    x.discard_before # "none" /\ "discard_before" \in line

\* (mutant) except_pattern is not looked at
IsMatch_IgnoresExcept(line) == "pattern" \in line

\* lines 566-567
IsMatch(line) == "pattern" \in line /\ ~("except_pattern" \in line)

\* line 586
DiscardAfterFires(x, line, n) ==
    \/ DiscardAfterLineNum(x) # 0 /\ n >= DiscardAfterLineNum(x)
    \/ x.discard_after # "none" /\ "discard_after" \in line

\* lines 561-565: the boundary record; the lines before the boundary are skipped
Skipped(dbl, n) == dbl > 0 /\ n < dbl

PutDiscardBefore(q, dbl, n, text, cur) ==
    IF dbl > 0 /\ n = dbl THEN Put(q, <<n, RT_discard_before, text>>, cur) ELSE q

\* lines 568-576: the line matches.  s is the loop state
\* [q, deque, lines_after, match_found, seek_end]
OnMatch(x, s, n, text, cur) ==
    IF x.files_with_matches
    THEN [ s EXCEPT !.q = Put(s.q, FLUSH_FILE_NAME, cur), !.seek_end = TRUE ]
    ELSE [ s EXCEPT !.q = Put(PutAll(s.q, s.deque, cur), <<n, RT_pattern, text>>, cur),
                    !.deque = <<>>,
                    !.lines_after = 0,
                    !.match_found = TRUE ]

\* (mutant) the emitted after_context records are not counted
OnNoMatch_NoCount(x, s, n, text, cur) ==
    LET dq == IF x.before_context > 0
              THEN DequeAppend(s.deque, x.before_context, <<n, RT_before_context, text>>)
              ELSE s.deque
    IN IF s.match_found /\ x.after_context > 0
       THEN [ s EXCEPT !.deque = dq,
                       !.q = Put(s.q, <<n, RT_after_context, text>>, cur) ]
       ELSE [ s EXCEPT !.deque = dq, !.match_found = FALSE ]

\* lines 577-585: the line does not match
OnNoMatch(x, s, n, text, cur) ==
    LET dq == IF x.before_context > 0
              THEN DequeAppend(s.deque, x.before_context, <<n, RT_before_context, text>>)
              ELSE s.deque
    IN IF s.match_found
       THEN IF s.lines_after < x.after_context
            THEN [ s EXCEPT !.deque = dq,
                            !.q = Put(s.q, <<n, RT_after_context, text>>, cur),
                            !.lines_after = s.lines_after + 1 ]
            ELSE [ s EXCEPT !.deque = dq, !.match_found = FALSE ]
       ELSE [ s EXCEPT !.deque = dq ]

\* lines 586-588
PutDiscardAfter(x, q, line, n, text, cur) ==
    IF DiscardAfterFires(x, line, n) THEN Put(q, <<n, RT_discard_after, text>>, cur) ELSE q

\* (mutant) discard_after is checked before the pattern instead of after it
ProcessLine_DiscardAfterFirst(x, s, dbl, line, n, text, cur) ==
    LET s1 == [ s EXCEPT !.q = PutDiscardAfter(x, PutDiscardBefore(s.q, dbl, n, text, cur), line, n, text, cur) ]
    IN IF IsMatch(line) THEN OnMatch(x, s1, n, text, cur) ELSE OnNoMatch(x, s1, n, text, cur)

\* the body of the main loop for one line that is not skipped
ProcessLine(x, s, dbl, line, n, text, cur) ==
    LET s1 == [ s EXCEPT !.q = PutDiscardBefore(s.q, dbl, n, text, cur) ]
        s2 == IF IsMatch(line) THEN OnMatch(x, s1, n, text, cur) ELSE OnNoMatch(x, s1, n, text, cur)
    IN [ s2 EXCEPT !.q = PutDiscardAfter(x, s2.q, line, n, text, cur) ]

\* ---------------------------------------------------------------------------
\* The worker thread
\* ---------------------------------------------------------------------------

\* the worker thread starts on the request x and the glob fs
WorkerStart(x, fs) ==
    /\ a = x
    /\ files = fs
    /\ pc = "open"
    /\ path_i = 0
    /\ member_i = 0
    /\ line_i = 0
    /\ discard_before_line_num = InitialDiscardBeforeLineNum(x)
    /\ line_num = 0
    /\ lines_after = 0
    /\ match_found = FALSE
    /\ before_deque = <<>>
    /\ file_name = NoName
    /\ items = <<>>
    /\ trace = <<>>
    /\ reads = <<>>
    /\ handles = {}
    /\ fault = NoFault

\* the request task and search_logs are left out
NoTask ==
    /\ task = "none"
    /\ taken = 0
    /\ got = <<>>
    /\ run = 1
    /\ first_got = <<>>

NoBatch ==
    /\ list_of_lists = <<>>
    /\ total = 0
    /\ frames = <<>>
    /\ size = <<>>

\* the request surface is not part of this run
NoResponse == <<>>

\* the configuration loader is not part of this run
NoLoader ==
    /\ file = <<>>
    /\ loader = <<>>
    /\ heap = <<>>
    /\ readers = <<>>

\* no function is called on its own in this run
NoCall == <<>>

\* the client and the sqlite logger are not part of this run
NoClient == <<>>
NoDb == <<>>

NoCalls ==
    /\ arg = <<>>
    /\ ret = NoCall
    /\ client = NoClient
    /\ database = NoDb

NoApi ==
    /\ config = <<>>
    /\ request = <<>>
    /\ response = NoResponse
    /\ method = ""
    /\ NoLoader
    /\ NoCalls

\* the worker alone, on a request and a glob drawn from the given shapes
InitFrom(shapes) ==
    \E x \in SearchArgsSet, sh \in shapes :
        /\ DrawnArgs(x)
        /\ \E F \in Firings(sh, x) : WorkerStart(x, MakeFiles(sh, F))
        /\ NoTask
        /\ NoBatch
        /\ NoApi

Init == InitFrom(GlobShapes)

\* for path in sorted(glob): with FileReader(path) as file: ... (lines 544-546).
\* __enter__ opens a plain file at once (on_file_open); an archive opens its
\* members one by one while it is iterated.
OpenPath ==
    /\ pc = "open"
    /\ path_i < Len(files)
    /\ path_i' = path_i + 1
    /\ member_i' = IF files[path_i + 1].archive THEN 0 ELSE 1
    /\ line_i' = 0
    /\ file_name' = IF files[path_i + 1].archive THEN file_name ELSE <<path_i + 1, 0>>
    /\ line_num' = 0
    /\ IF FirstPassCond(a, discard_before_line_num)
       THEN pc' = "first" /\ UNCHANGED <<lines_after, match_found>>
       ELSE pc' = "main" /\ lines_after' = 0 /\ match_found' = FALSE
    /\ handles' = Enter(handles, path_i + 1)
    /\ UNCHANGED <<a, files, discard_before_line_num, before_deque, items, trace, reads>>
    /\ UNCHANGED <<fault, taskVars, batchVars, apiVars>>

\* one iteration of the first loop (lines 548-552)
FirstPassLine ==
    /\ pc = "first"
    /\ HasLine(path_i, member_i, line_i)
    /\ LET pos == ReadPos(path_i, member_i, line_i)
           line == Members(path_i)[pos[1]][pos[2]]
           n == NextLineNum(line_num, member_i, pos[1])
       IN /\ member_i' = pos[1]
          /\ line_i' = pos[2]
          /\ file_name' = NameAfterOpen(path_i, member_i, pos[1], file_name)
          /\ line_num' = n
          /\ discard_before_line_num' =
                IF DiscardBeforeTermFires(a, line) THEN n ELSE discard_before_line_num
          /\ handles' = OpenMembers(handles, path_i, member_i, pos[1])
    /\ UNCHANGED <<a, files, pc, path_i, lines_after, match_found, before_deque, items, trace, reads>>
    /\ UNCHANGED <<fault, taskVars, batchVars, apiVars>>

\* the first loop ends: the remaining (empty) members are opened, then
\* file.rewind() (line 553) and the main loop's variables are set (lines 555-557)
FirstPassEnd ==
    /\ pc = "first"
    /\ ~HasLine(path_i, member_i, line_i)
    /\ pc' = "main"
    /\ member_i' = IF files[path_i].archive THEN 0 ELSE member_i
    /\ line_i' = 0
    /\ file_name' = NameAfterOpen(path_i, member_i, Len(Members(path_i)), file_name)
    /\ line_num' = 0
    /\ lines_after' = 0
    /\ match_found' = FALSE
    /\ handles' = Rewind(OpenMembers(handles, path_i, member_i, Len(Members(path_i))), path_i)
    /\ UNCHANGED <<a, files, path_i, discard_before_line_num, before_deque, items, trace, reads>>
    /\ UNCHANGED <<fault, taskVars, batchVars, apiVars>>

\* one iteration of the main loop (lines 558-588); the break after the
\* discard_after record leaves the with block (__exit__)
MainLine ==
    /\ pc = "main"
    /\ HasLine(path_i, member_i, line_i)
    /\ LET pos == ReadPos(path_i, member_i, line_i)
           line == Members(path_i)[pos[1]][pos[2]]
           text == <<path_i, pos[1], pos[2]>>
           cur == Name(path_i, pos[1])
           n == NextLineNum(line_num, member_i, pos[1])
           s0 == [ q |-> [ items |-> items,
                           file_name |-> NameAfterOpen(path_i, member_i, pos[1], file_name),
                           trace |-> trace ],
                   deque |-> before_deque,
                   lines_after |-> lines_after,
                   match_found |-> match_found,
                   seek_end |-> FALSE ]
           skip == Skipped(discard_before_line_num, n)
           s1 == IF skip THEN s0
                 ELSE ProcessLine(a, s0, discard_before_line_num, line, n, text, cur)
           brk == ~skip /\ DiscardAfterFires(a, line, n)
       IN /\ member_i' = pos[1]
          /\ line_i' = IF s1.seek_end THEN Len(Members(path_i)[pos[1]]) ELSE pos[2]
          /\ line_num' = n
          /\ items' = s1.q.items
          /\ file_name' = s1.q.file_name
          /\ trace' = s1.q.trace
          /\ before_deque' = s1.deque
          /\ lines_after' = s1.lines_after
          /\ match_found' = s1.match_found
          /\ reads' = Append(reads, [text |-> text, line_num |-> n, skipped |-> skip])
          /\ pc' = IF brk THEN "open" ELSE "main"
          /\ handles' = IF brk THEN Exit(OpenMembers(handles, path_i, member_i, pos[1]))
                         ELSE OpenMembers(handles, path_i, member_i, pos[1])
    /\ UNCHANGED <<a, files, path_i, discard_before_line_num>>
    /\ UNCHANGED <<fault, taskVars, batchVars, apiVars>>

\* the main loop runs out of lines: the remaining (empty) members are opened,
\* and the with block is left (__exit__)
MainEnd ==
    /\ pc = "main"
    /\ ~HasLine(path_i, member_i, line_i)
    /\ pc' = "open"
    /\ file_name' = NameAfterOpen(path_i, member_i, Len(Members(path_i)), file_name)
    /\ member_i' = Len(Members(path_i))
    /\ handles' = Exit(OpenMembers(handles, path_i, member_i, Len(Members(path_i))))
    /\ UNCHANGED <<a, files, path_i, line_i, discard_before_line_num, line_num, lines_after,
                   match_found, before_deque, items, trace, reads>>
    /\ UNCHANGED <<fault, taskVars, batchVars, apiVars>>

\* finally: que.put(None) (line 593)
Finish ==
    /\ pc = "open"
    /\ path_i = Len(files)
    /\ pc' = "done"
    /\ LET q == Put([items |-> items, file_name |-> file_name, trace |-> trace], None, NoName)
       IN /\ items' = q.items
          /\ file_name' = q.file_name
          /\ trace' = q.trace
    /\ UNCHANGED <<a, files, path_i, member_i, line_i, discard_before_line_num, line_num,
                   lines_after, match_found, before_deque, reads>>
    /\ UNCHANGED <<handles, fault, taskVars, batchVars, apiVars>>

Next ==
    \/ OpenPath
    \/ FirstPassLine
    \/ FirstPassEnd
    \/ MainLine
    \/ MainEnd
    \/ Finish

Spec == Init /\ [][Next]_vars

\* the worker on a glob in which an archive is scanned after another file
InitMixed == InitFrom(MixedShapes)

MixedSpec == InitMixed /\ [][Next]_vars

\* ---------------------------------------------------------------------------
\* search_logs: batching the records into NDJSON frames
\* ---------------------------------------------------------------------------

\* A JSON text is the sequence of its tokens.  A string token stands for the
\* quoted and escaped string json.dumps writes: whatever the text holds, the
\* token holds no raw newline.
Punct(c) == <<"punct", c>>
Number(n) == <<"number", n>>
String(v) == <<"string", v>>
NL == Punct("\n")

\* json.dumps of one record, a tuple (line_num, record_type, text), separators (',', ':')
DumpsRecord(item) ==
    <<Punct("["), Number(item[1]), Punct(","), String(item[2]), Punct(","), String(item[3]), Punct("]")>>

RECURSIVE DumpsItems(_)
DumpsItems(l) ==
    IF l = <<>> THEN <<>>
    ELSE IF Len(l) = 1 THEN DumpsRecord(l[1])
    ELSE DumpsRecord(Head(l)) \o <<Punct(",")>> \o DumpsItems(Tail(l))

\* json.dumps(list_of_lists, separators=JSON_SEPARATORS)
Dumps(l) == <<Punct("[")>> \o DumpsItems(l) \o <<Punct("]")>>

\* the string yielded: json.dumps(list_of_lists, separators=JSON_SEPARATORS) + '\n'
Frame(l) == Dumps(l) \o <<NL>>

\* (mutant) the threshold is tested with > instead of >=
BatchItem_Greater(b, item, n) ==
    LET l == Append(b.list, item)
        t == b.total + n
    IN IF t > MINIMUM_SIZE
       THEN [ list |-> <<>>, total |-> 0, frames |-> Append(b.frames, Frame(l)) ]
       ELSE [ list |-> l, total |-> t, frames |-> b.frames ]

\* the body of the async for loop (lines 355-361) for one item whose text has
\* length n; b is [list, total, frames]
BatchItem(b, item, n) ==
    LET l == Append(b.list, item)
        t == b.total + n
    IN IF t >= MINIMUM_SIZE
       THEN [ list |-> <<>>, total |-> 0, frames |-> Append(b.frames, Frame(l)) ]
       ELSE [ list |-> l, total |-> t, frames |-> b.frames ]

\* (mutant) the residue is not yielded when the stream ends
BatchEnd_NoResidue(b) == b

\* after the loop (lines 363-364)
BatchEnd(b) ==
    IF b.list # <<>> THEN [ b EXCEPT !.frames = Append(@, Frame(b.list)) ] ELSE b

\* the record streams fed to search_logs: a file_path record and two line records
BatchRecords ==
    { <<0, RT_file_path, <<1, 0>>>>, <<1, RT_pattern, <<1, 1, 1>>>>, <<2, RT_after_context, <<1, 1, 2>>>> }

BatchTexts == { r[3] : r \in BatchRecords }

\* the lengths a text is drawn with
SizeSet == {0, 400, 600, MINIMUM_SIZE}

\* no worker thread is modelled
NoWorker ==
    /\ a = <<>>
    /\ files = <<>>
    /\ pc = "none"
    /\ path_i = 0
    /\ member_i = 0
    /\ line_i = 0
    /\ discard_before_line_num = 0
    /\ line_num = 0
    /\ lines_after = 0
    /\ match_found = FALSE
    /\ before_deque = <<>>
    /\ file_name = NoName
    /\ items = <<>>
    /\ trace = <<>>
    /\ reads = <<>>
    /\ handles = {}
    /\ fault = NoFault

\* search_logs starts (lines 351-353) on a stream of records whose texts have
\* the drawn lengths
InitBatch ==
    /\ NoWorker
    /\ task = "waiting"
    /\ taken = 0
    /\ got = <<>>
    /\ run = 1
    /\ first_got = <<>>
    /\ list_of_lists = <<>>
    /\ total = 0
    /\ frames = <<>>
    /\ size \in [BatchTexts -> SizeSet]
    /\ NoApi

\* async for item in gen_matching_lines(...): the next item arrives
Receive ==
    /\ task = "waiting"
    /\ Len(got) < MaxStream
    /\ \E item \in BatchRecords :
          LET b == BatchItem([list |-> list_of_lists, total |-> total, frames |-> frames],
                             item, size[item[3]])
          IN /\ got' = Append(got, item)
             /\ list_of_lists' = b.list
             /\ total' = b.total
             /\ frames' = b.frames
    /\ UNCHANGED <<workerVars, handles, fault, task, taken, run, first_got, size, apiVars>>

\* the stream of gen_matching_lines ends
EndOfStream ==
    /\ task = "waiting"
    /\ task' = "ended"
    /\ LET b == BatchEnd([list |-> list_of_lists, total |-> total, frames |-> frames])
       IN /\ list_of_lists' = b.list
          /\ total' = b.total
          /\ frames' = b.frames
    /\ UNCHANGED <<workerVars, handles, fault, taken, got, run, first_got, size, apiVars>>

NextBatch ==
    \/ Receive
    \/ EndOfStream

BatchSpec == InitBatch /\ [][NextBatch]_vars

\* ---------------------------------------------------------------------------
\* gen_matching_lines and search_logs: the request task beside the worker thread
\* ---------------------------------------------------------------------------

\* the requests of the stream model: no context lines, discard_before as a
\* regex or absent, discard_after as a string or absent
StreamArgs ==
    { x \in SearchArgsSet :
        /\ DrawnArgs(x)
        /\ x.before_context = 0 /\ x.after_context = 0
        /\ x.discard_before \in {"none", "rx"}
        /\ x.discard_after \in {"none", "str"} }

\* every text a record can carry: a file name or a line
AllTexts ==
    ((1..MaxPaths) \X (0..MaxMembers)) \cup ((1..MaxPaths) \X (1..MaxMembers) \X (1..MaxLines))

\* the request starts: thread.start() (lines 595-597) with search_logs at its
\* first await (lines 351-354)
InitStream ==
    \E x \in StreamArgs, sh \in GlobShapes :
        /\ \E F \in Firings(sh, x) : WorkerStart(x, MakeFiles(sh, F))
        /\ task = "waiting"
        /\ taken = 0
        /\ got = <<>>
        /\ run = 1
        /\ first_got = <<>>
        /\ list_of_lists = <<>>
        /\ total = 0
        /\ frames = <<>>
        /\ size = [ t \in AllTexts |-> StreamTextSize ]
        /\ NoApi

\* (mutant) the sentinel is put at the end of the try block, not in finally:
\* an exception ends the worker without it
Raise_NoSentinel ==
    /\ pc \in {"first", "main"} \/ (pc = "open" /\ path_i < Len(files))
    /\ fault' = <<path_i, member_i>>
    /\ handles' = Exit(handles)
    /\ pc' = "done"
    /\ UNCHANGED <<a, files, path_i, member_i, line_i, discard_before_line_num, line_num,
                   lines_after, match_found, before_deque, file_name, items, trace, reads>>
    /\ UNCHANGED <<taskVars, batchVars, apiVars>>

\* an exception in the worker: an error opening the next path, or reading the
\* next line in either loop.  The with block is left (__exit__), the
\* traceback is printed (lines 589-591) and finally que.put(None) (line 593)
Raise ==
    /\ pc \in {"first", "main"} \/ (pc = "open" /\ path_i < Len(files))
    /\ fault' = IF pc = "open" THEN <<path_i + 1, 0>>
                ELSE IF HasLine(path_i, member_i, line_i)
                     THEN <<path_i, ReadPos(path_i, member_i, line_i)[1]>>
                     ELSE <<path_i, member_i>>
    /\ handles' = Exit(handles)
    /\ pc' = "done"
    /\ LET q == Put([items |-> items, file_name |-> file_name, trace |-> trace], None, NoName)
       IN /\ items' = q.items
          /\ file_name' = q.file_name
          /\ trace' = q.trace
    /\ UNCHANGED <<a, files, path_i, member_i, line_i, discard_before_line_num, line_num,
                   lines_after, match_found, before_deque, reads>>
    /\ UNCHANGED <<taskVars, batchVars, apiVars>>

\* (mutant) the queue hands out the newest item
QueGet_Newest(q, n) == q[Len(q)]

\* queue.Queue.get on the queue that received q, n items of it already taken
QueGet(q, n) == q[n + 1]

\* await asyncio.to_thread(que.get) returns (line 599).  A record is yielded
\* to search_logs, which runs the body of its loop; None ends the loop:
\* thread.join() (line 602, the worker has put None as its last act), and
\* search_logs yields the residue
TaskGet ==
    /\ task = "waiting"
    /\ taken < Len(items)
    /\ taken' = taken + 1
    /\ LET item == QueGet(items, taken)
           b0 == [list |-> list_of_lists, total |-> total, frames |-> frames]
           b == IF item = None THEN BatchEnd(b0) ELSE BatchItem(b0, item, size[item[3]])
       IN /\ task' = IF item = None THEN "ended" ELSE "waiting"
          /\ got' = IF item = None THEN got ELSE Append(got, item)
          /\ list_of_lists' = b.list
          /\ total' = b.total
          /\ frames' = b.frames
    /\ UNCHANGED <<workerVars, handles, fault, run, first_got, size, apiVars>>

\* the client disconnects: the response task is cancelled at its await (line
\* 599) and enters finally: thread.join() (line 602).  Nothing is passed to
\* the worker.
Cancel ==
    /\ task = "waiting"
    /\ task' = "joining"
    /\ UNCHANGED <<workerVars, handles, fault, taken, got, run, first_got, batchVars, apiVars>>

\* thread.join() returns once the worker has ended
Join ==
    /\ task = "joining"
    /\ pc = "done"
    /\ task' = "cancelled"
    /\ UNCHANGED <<workerVars, handles, fault, taken, got, run, first_got, batchVars, apiVars>>

\* the same request is made a second time, on the same files
Rerun ==
    /\ task = "ended"
    /\ run = 1
    /\ fault = NoFault
    /\ run' = 2
    /\ first_got' = got
    /\ pc' = "open"
    /\ path_i' = 0
    /\ member_i' = 0
    /\ line_i' = 0
    /\ discard_before_line_num' = InitialDiscardBeforeLineNum(a)
    /\ line_num' = 0
    /\ lines_after' = 0
    /\ match_found' = FALSE
    /\ before_deque' = <<>>
    /\ file_name' = NoName
    /\ items' = <<>>
    /\ trace' = <<>>
    /\ reads' = <<>>
    /\ task' = "waiting"
    /\ taken' = 0
    /\ got' = <<>>
    /\ list_of_lists' = <<>>
    /\ total' = 0
    /\ frames' = <<>>
    /\ UNCHANGED <<a, files, handles, fault, size, apiVars>>

NextStream ==
    \/ OpenPath
    \/ FirstPassLine
    \/ FirstPassEnd
    \/ MainLine
    \/ MainEnd
    \/ Finish
    \/ Raise
    \/ TaskGet
    \/ Cancel
    \/ Join
    \/ Rerun

StreamSpec == InitStream /\ [][NextStream]_vars

\* a step of the worker thread
WorkerNext == OpenPath \/ FirstPassLine \/ FirstPassEnd \/ MainLine \/ MainEnd \/ Finish \/ Raise

\* a request that is not cancelled: the worker is a thread of its own and
\* que.get runs in a thread of the default executor, so each goes on when it can
NextDelivery == WorkerNext \/ TaskGet

DeliverySpec == InitStream /\ [][NextDelivery]_vars /\ WF_vars(WorkerNext) /\ WF_vars(TaskGet)

\* ---------------------------------------------------------------------------
\* The request surface: configuration, get_settings and the validation of a
\* search request
\* ---------------------------------------------------------------------------

\* at most this many options are set in the configuration and the request together
MaxSet == 3

TOP_LEVEL == "#top-level"

TermOptions == {"discard_before", "pattern", "except_pattern", "discard_after"}
ContextOptions == {"before_context", "after_context"}
Options == TermOptions \cup ContextOptions

\* a term is the empty string, a plain literal, a regex that compiles or a
\* regex that re.compile rejects; a missing term (None) is falsy like ''
TermValue == <<"", "lit", "rx", "bad">>
ContextValue == <<-1, 0, 1>>

\* class Settings: the defaults of the search options
SettingsDefaults ==
    [ discard_before |-> "", before_context |-> 0, pattern |-> "",
      except_pattern |-> "", after_context |-> 0, discard_after |-> "" ]

\* an exception that leaves the function
Raised(e) == [ exception |-> e ]
IsRaised(x) == "exception" \in DOMAIN x

\* the option names as a configuration file may spell them, with hyphens
Hyphenated ==
    [ discard_before |-> "discard-before", before_context |-> "before-context",
      pattern |-> "pattern", except_pattern |-> "except-pattern",
      after_context |-> "after-context", discard_after |-> "discard-after" ]

\* names of tables that start with a hash
HashNames == {TOP_LEVEL, "#hidden"}
startswith_hash(key) == key \in HashNames

\* key.replace('-', '_')
replace_hyphens(key) ==
    IF \E k \in Options : Hyphenated[k] = key
    THEN CHOOSE k \in Options : Hyphenated[k] = key
    ELSE key

\* Settings(**kwargs_for_settings): the common options, overridden by the
\* keys of the profile table, over the defaults of the class; a key that is
\* not a field of the class is a TypeError
Settings(common, dct) ==
    IF (DOMAIN common \cup DOMAIN dct) \subseteq Options
    THEN [ k \in Options |->
            IF k \in DOMAIN dct THEN dct[k]
            ELSE IF k \in DOMAIN common THEN common[k]
            ELSE SettingsDefaults[k] ]
    ELSE Raised("TypeError")

\* the tables whose names do not start with a hash are the profiles; the
\* top-level keys, hyphens replaced, are common to all of them (a
\* configuration spells an option one way at the top level)
make_profile_to_settings_from_toml_text(cfg) ==
    LET common_kwargs_for_settings ==
            [ k \in { replace_hyphens(key) : key \in DOMAIN cfg.common } |->
                cfg.common[CHOOSE key \in DOMAIN cfg.common : replace_hyphens(key) = k] ]
        profile_to_dict ==
            [ p \in {TOP_LEVEL} \cup { key \in DOMAIN cfg.profiles : ~startswith_hash(key) } |->
                IF p = TOP_LEVEL THEN <<>> ELSE cfg.profiles[p] ]
        profile_to_settings ==
            [ p \in DOMAIN profile_to_dict |->
                Settings(common_kwargs_for_settings, profile_to_dict[p]) ]
    IN  IF \E p \in DOMAIN profile_to_settings : IsRaised(profile_to_settings[p])
        THEN Raised("TypeError")
        ELSE profile_to_settings

HTTPException(status_code, detail) ==
    [ status_code |-> status_code, detail |-> detail, search_args |-> <<>> ]

\* StreamingResponse(search_logs(search_args)): the status line is sent and
\* the stream of the search starts
StreamingResponse(search_args) ==
    [ status_code |-> 200, detail |-> "", search_args |-> search_args ]

\* the Settings of the profile, or the 404 of a named profile that the
\* configuration does not have
get_settings(profile, cfg) ==
    LET profile_to_settings == make_profile_to_settings_from_toml_text(cfg)
    IN  IF IsRaised(profile_to_settings) THEN profile_to_settings
        ELSE IF profile # ""
        THEN IF profile \in DOMAIN profile_to_settings
             THEN profile_to_settings[profile]
             ELSE HTTPException(404, "profile")
        ELSE profile_to_settings[TOP_LEVEL]

is_probably_complex_pattern(t) == t \in {"rx", "bad"}

\* re.compile raises re.error
CompileFails(t) == t = "bad"

\* x or settings.x
OrSettings(args, settings, k) ==
    IF k \in DOMAIN args /\ args[k] # "" THEN args[k] ELSE settings[k]

\* (mutant) a context size is layered like a term: x or settings.x
IfNotNone_OrZero(args, settings, k) ==
    IF k \in DOMAIN args /\ args[k] # 0 THEN args[k] ELSE settings[k]

\* x if x is not None else settings.x
IfNotNone(args, settings, k) ==
    IF k \in DOMAIN args THEN args[k] ELSE settings[k]

\* a term of the request that is non-empty, looks like a regex and does not compile
Rejected(t) == t # "" /\ is_probably_complex_pattern(t) /\ CompileFails(t)

\* (mutant) the checks in the order terms, predicates, context sizes
from_settings_and_args_with_validation_ContextLast(settings, args) ==
    LET before_context == IfNotNone(args, settings, "before_context")
        after_context == IfNotNone(args, settings, "after_context")
        discard_before == OrSettings(args, settings, "discard_before")
        pattern == OrSettings(args, settings, "pattern")
        except_pattern == OrSettings(args, settings, "except_pattern")
        discard_after == OrSettings(args, settings, "discard_after")
    IN  IF Rejected(discard_before) THEN HTTPException(400, "discard_before")
        ELSE IF Rejected(pattern) THEN HTTPException(400, "pattern")
        ELSE IF Rejected(except_pattern) THEN HTTPException(400, "except_pattern")
        ELSE IF Rejected(discard_after) THEN HTTPException(400, "discard_after")
        ELSE IF discard_before = "" /\ pattern = "" /\ discard_after = ""
        THEN HTTPException(400, "must be specified")
        ELSE IF before_context < 0 THEN HTTPException(400, "before_context")
        ELSE IF after_context < 0 THEN HTTPException(400, "after_context")
        ELSE StreamingResponse(
                [ discard_before |-> discard_before, before_context |-> before_context,
                  pattern |-> pattern, except_pattern |-> except_pattern,
                  after_context |-> after_context, discard_after |-> discard_after ])

\* (mutant) a non-empty except_pattern is enough for a request to be accepted
from_settings_and_args_with_validation_ExceptCounts(settings, args) ==
    LET before_context == IfNotNone(args, settings, "before_context")
        after_context == IfNotNone(args, settings, "after_context")
        discard_before == OrSettings(args, settings, "discard_before")
        pattern == OrSettings(args, settings, "pattern")
        except_pattern == OrSettings(args, settings, "except_pattern")
        discard_after == OrSettings(args, settings, "discard_after")
    IN  IF before_context < 0 THEN HTTPException(400, "before_context")
        ELSE IF after_context < 0 THEN HTTPException(400, "after_context")
        ELSE IF Rejected(discard_before) THEN HTTPException(400, "discard_before")
        ELSE IF Rejected(pattern) THEN HTTPException(400, "pattern")
        ELSE IF Rejected(except_pattern) THEN HTTPException(400, "except_pattern")
        ELSE IF Rejected(discard_after) THEN HTTPException(400, "discard_after")
        ELSE IF discard_before = "" /\ pattern = "" /\ except_pattern = "" /\ discard_after = ""
        THEN HTTPException(400, "must be specified")
        ELSE StreamingResponse(
                [ discard_before |-> discard_before, before_context |-> before_context,
                  pattern |-> pattern, except_pattern |-> except_pattern,
                  after_context |-> after_context, discard_after |-> discard_after ])

\* SearchArgs.from_settings_and_args_with_validation: the first check that
\* fails raises its HTTPException; when none fails the search starts on the
\* layered values
from_settings_and_args_with_validation(settings, args) ==
    LET before_context == IfNotNone(args, settings, "before_context")
        after_context == IfNotNone(args, settings, "after_context")
        discard_before == OrSettings(args, settings, "discard_before")
        pattern == OrSettings(args, settings, "pattern")
        except_pattern == OrSettings(args, settings, "except_pattern")
        discard_after == OrSettings(args, settings, "discard_after")
    IN  IF before_context < 0 THEN HTTPException(400, "before_context")
        ELSE IF after_context < 0 THEN HTTPException(400, "after_context")
        ELSE IF Rejected(discard_before) THEN HTTPException(400, "discard_before")
        ELSE IF Rejected(pattern) THEN HTTPException(400, "pattern")
        ELSE IF Rejected(except_pattern) THEN HTTPException(400, "except_pattern")
        ELSE IF Rejected(discard_after) THEN HTTPException(400, "discard_after")
        ELSE IF discard_before = "" /\ pattern = "" /\ discard_after = ""
        THEN HTTPException(400, "must be specified")
        ELSE StreamingResponse(
                [ discard_before |-> discard_before, before_context |-> before_context,
                  pattern |-> pattern, except_pattern |-> except_pattern,
                  after_context |-> after_context, discard_after |-> discard_after ])

\* the endpoint: an HTTPException of get_settings or of the validation is the
\* answer, else the streaming response
search_logs_get(cfg, r) ==
    LET settings == get_settings(r.profile, cfg)
    IN  IF IsRaised(settings) THEN HTTPException(500, settings.exception)
        ELSE IF "status_code" \in DOMAIN settings THEN settings
        ELSE from_settings_and_args_with_validation(settings, r.args)

\* the options that may be set: in the request, at the top level of the
\* configuration and in the table of the profile "known"
Places == {"request", TOP_LEVEL, "known"}
Fields == Places \X Options

ValueOf(f, i) == IF f[2] \in TermOptions THEN TermValue[i] ELSE ContextValue[i]

\* the options that F sets in one place, with the values v gives them
Dict(F, v, place) ==
    [ k \in { f[2] : f \in { g \in F : g[1] = place } } |-> ValueOf(<<place, k>>, v[<<place, k>>]) ]

ProfileArgs == {"", "known", "unknown"}

InitValidation ==
    /\ NoWorker
    /\ NoTask
    /\ NoBatch
    /\ \E F \in SubsetsUpTo(Fields, MaxSet) : \E v \in [F -> 1..Len(TermValue)] :
        /\ \A f \in F : f[2] \in ContextOptions => v[f] <= Len(ContextValue)
        /\ config = [ common |-> Dict(F, v, TOP_LEVEL),
                      profiles |-> [ p \in {"known"} |-> Dict(F, v, "known") ] ]
        /\ \E profile \in ProfileArgs :
            request = [ profile |-> profile, args |-> Dict(F, v, "request") ]
    /\ response = NoResponse
    /\ method = ""
    /\ NoLoader
    /\ NoCalls

\* one request is answered
SearchLogsGet ==
    /\ request # <<>>
    /\ response = NoResponse
    /\ response' = search_logs_get(config, request)
    /\ method' = "GET"
    /\ UNCHANGED <<workerVars, handles, fault, taskVars, batchVars, config, request, loaderVars, callVars>>

NextValidation == SearchLogsGet

\* the POST endpoint runs the same steps on the fields of SearchRequest.
\* SearchRequest declares before_context as str: a body that carries it is
\* rejected when the body is parsed (422), or its value reaches the
\* validation as a string and `_before_context < 0` raises TypeError, which
\* the endpoint answers with 500; which of the two depends on how the
\* installed pydantic converts a JSON number for a str field
search_logs_post(cfg, r) ==
    IF "before_context" \in DOMAIN r.args
    THEN { HTTPException(422, "before_context"),
           LET settings == get_settings(r.profile, cfg)
           IN  IF IsRaised(settings) THEN HTTPException(500, settings.exception)
               ELSE IF "status_code" \in DOMAIN settings THEN settings
               ELSE HTTPException(500, "TypeError") }
    ELSE { search_logs_get(cfg, r) }

\* one request is answered by the POST endpoint
SearchLogsPost ==
    /\ request # <<>>
    /\ response = NoResponse
    /\ response' \in search_logs_post(config, request)
    /\ method' = "POST"
    /\ UNCHANGED <<workerVars, handles, fault, taskVars, batchVars, config, request, loaderVars, callVars>>

NextEndpoint == SearchLogsGet \/ SearchLogsPost

EndpointSpec == InitValidation /\ [][NextEndpoint]_vars

ValidationSpec == InitValidation /\ [][NextValidation]_vars

\* at most this many options are set when the profile names and the spelling
\* of the keys are drawn too
MaxSetProfiles == 2

\* the keys of a table, spelled with hyphens or with underscores
Spell(dct, hyphens) ==
    IF hyphens
    THEN [ key \in { Hyphenated[k] : k \in DOMAIN dct } |->
            dct[CHOOSE k \in DOMAIN dct : Hyphenated[k] = key] ]
    ELSE dct

\* a configuration with the tables "known" and "#hidden", and a request that
\* names any profile, those that start with a hash included
InitProfiles ==
    /\ NoWorker
    /\ NoTask
    /\ NoBatch
    /\ \E F \in SubsetsUpTo((Places \cup {"#hidden"}) \X Options, MaxSetProfiles) :
       \E v \in [F -> 1..Len(TermValue)], hyphens_common \in BOOLEAN, hyphens_known \in BOOLEAN :
        /\ \A f \in F : f[2] \in ContextOptions => v[f] <= Len(ContextValue)
        /\ config = [ common |-> Spell(Dict(F, v, TOP_LEVEL), hyphens_common),
                      profiles |-> [ p \in {"known", "#hidden"} |->
                                        IF p = "known" THEN Spell(Dict(F, v, "known"), hyphens_known)
                                        ELSE Dict(F, v, "#hidden") ] ]
        /\ \E profile \in ProfileArgs \cup HashNames :
            request = [ profile |-> profile, args |-> Dict(F, v, "request") ]
    /\ response = NoResponse
    /\ method = ""
    /\ NoLoader
    /\ NoCalls

ProfileSpec == InitProfiles /\ [][NextValidation]_vars

\* ---------------------------------------------------------------------------
\* ConfigLoader: the cache of the parsed configuration file
\* ---------------------------------------------------------------------------

\* the file changes at most this many times
MaxChanges == 2
\* each thread serves at most this many requests
MaxReads == 2
\* the threads that read the configuration for a request
NReaders == 2

Readers == 1..NReaders

\* self._config_cache is None
NoObject == 0

\* the content of the file parses, or the file is not there, is not TOML or
\* sets an option that Settings does not have
FileStatus == {"ok", "missing", "unparsable", "unknown option"}

Idle == [ pc |-> "idle", sr |-> <<0, 0>>, parsed |-> NoObject, result |-> <<>>,
          before |-> <<>>, reads |-> 1 ]

\* ConfigLoader(config_path) is constructed; the file is there and parses
\* (the module does not import otherwise, line 216)
InitLoader ==
    /\ NoWorker
    /\ NoTask
    /\ NoBatch
    /\ config = <<>>
    /\ request = <<>>
    /\ response = NoResponse
    /\ method = ""
    /\ NoCalls
    /\ file = [ status |-> "ok", ver |-> 1, mtime |-> 1, size |-> 1 ]
    /\ loader = [ cache |-> NoObject, mtime |-> 0, size |-> 0 ]
    /\ heap = <<>>
    /\ readers = [ t \in Readers |-> Idle ]

NotLoader == <<workerVars, handles, fault, taskVars, batchVars, config, request, response, method, callVars>>

\* a thread is inside _get_fresh_profile_to_settings
Reading(t) == readers[t].pc \notin {"idle", "done"}

\* top_level_settings = config_loader.fresh_profile_to_settings[TOP_LEVEL]:
\* the read at import, before any request is served
Import ==
    /\ loader.cache = NoObject
    /\ file.status = "ok"
    /\ heap' = Append(heap, [ ver |-> file.ver ])
    /\ loader' = [ cache |-> Len(heap'), mtime |-> file.mtime, size |-> file.size ]
    /\ UNCHANGED <<file, readers, NotLoader>>

\* somebody writes, removes or restores the file; a written file has a pair
\* (mtime, size) that it never had before
FileChange ==
    /\ loader.cache # NoObject
    /\ file.ver <= MaxChanges
    /\ \E st \in FileStatus :
       \E pair \in { <<file.mtime + 1, 1>>, <<file.mtime + 1, file.size>>, <<file.mtime, file.size + 1>> } :
            file' = [ status |-> st, ver |-> file.ver + 1, mtime |-> pair[1], size |-> pair[2] ]
    /\ UNCHANGED <<loader, heap, readers, NotLoader>>

HTTP500 == [ status_code |-> 500, mapping |-> NoObject, ver |-> 0 ]

\* sr = self._config_path.stat()
Stat(t) ==
    /\ loader.cache # NoObject
    /\ readers[t].pc = "idle"
    /\ LET before == [ loader |-> loader, heap |-> heap ] IN
       IF file.status = "missing"
       THEN readers' = [readers EXCEPT ![t].pc = "done", ![t].result = HTTP500, ![t].before = before]
       ELSE readers' = [readers EXCEPT ![t].pc = "test", ![t].sr = <<file.mtime, file.size>>,
                                       ![t].before = before]
    /\ UNCHANGED <<file, loader, heap, NotLoader>>

\* (mutant) the file is parsed on every read
NeedsRefresh_Always(sr) == TRUE

\* self._config_cache is None or self._config_mtime != sr.st_mtime or
\* self._config_size != sr.st_size
NeedsRefresh(sr) ==
    loader.cache = NoObject \/ loader.mtime # sr[1] \/ loader.size # sr[2]

Test(t) ==
    /\ readers[t].pc = "test"
    /\ readers' = [readers EXCEPT ![t].pc = IF NeedsRefresh(readers[t].sr) THEN "parse" ELSE "return"]
    /\ UNCHANGED <<file, loader, heap, NotLoader>>

\* (mutant) a failed refresh drops the cache
Parse_DropsCache(t) ==
    /\ readers[t].pc = "parse"
    /\ IF file.status # "ok"
       THEN /\ readers' = [readers EXCEPT ![t].pc = "done", ![t].result = HTTP500]
            /\ loader' = [loader EXCEPT !.cache = NoObject]
            /\ UNCHANGED heap
       ELSE /\ heap' = Append(heap, [ ver |-> file.ver ])
            /\ readers' = [readers EXCEPT ![t].pc = "store cache", ![t].parsed = Len(heap')]
            /\ UNCHANGED loader
    /\ UNCHANGED <<file, NotLoader>>

\* make_profile_to_settings_from_toml_path(self._config_path): the exception
\* of read_text, tomllib.loads or Settings(**kwargs) leaves the method before
\* anything is assigned; else a new mapping is built
Parse(t) ==
    /\ readers[t].pc = "parse"
    /\ IF file.status # "ok"
       THEN /\ readers' = [readers EXCEPT ![t].pc = "done", ![t].result = HTTP500]
            /\ UNCHANGED heap
       ELSE /\ heap' = Append(heap, [ ver |-> file.ver ])
            /\ readers' = [readers EXCEPT ![t].pc = "store cache", ![t].parsed = Len(heap')]
    /\ UNCHANGED <<file, loader, NotLoader>>

\* (mutant) the mapping that is cached is updated in place
StoreCache_InPlace(t) ==
    /\ readers[t].pc = "store cache"
    /\ heap' = [heap EXCEPT ![loader.cache] = heap[readers[t].parsed]]
    /\ readers' = [readers EXCEPT ![t].pc = "store mtime"]
    /\ UNCHANGED <<file, loader, NotLoader>>

\* self._config_cache = ...
StoreCache(t) ==
    /\ readers[t].pc = "store cache"
    /\ loader' = [loader EXCEPT !.cache = readers[t].parsed]
    /\ readers' = [readers EXCEPT ![t].pc = "store mtime"]
    /\ UNCHANGED <<file, heap, NotLoader>>

\* self._config_mtime = sr.st_mtime
StoreMtime(t) ==
    /\ readers[t].pc = "store mtime"
    /\ loader' = [loader EXCEPT !.mtime = readers[t].sr[1]]
    /\ readers' = [readers EXCEPT ![t].pc = "store size"]
    /\ UNCHANGED <<file, heap, NotLoader>>

\* self._config_size = sr.st_size
StoreSize(t) ==
    /\ readers[t].pc = "store size"
    /\ loader' = [loader EXCEPT !.size = readers[t].sr[2]]
    /\ readers' = [readers EXCEPT ![t].pc = "return"]
    /\ UNCHANGED <<file, heap, NotLoader>>

\* return self._config_cache; the request goes on with the mapping (ver: the
\* content the mapping has at that moment)
Return(t) ==
    /\ readers[t].pc = "return"
    /\ readers' = [readers EXCEPT ![t].pc = "done",
                                  ![t].result = [ status_code |-> 200, mapping |-> loader.cache,
                                                  ver |-> heap[loader.cache].ver ]]
    /\ UNCHANGED <<file, loader, heap, NotLoader>>

\* the response of the request ends and the thread serves the next request
NextRequest(t) ==
    /\ readers[t].pc = "done"
    /\ readers[t].reads < MaxReads
    /\ readers' = [readers EXCEPT ![t] = [Idle EXCEPT !.reads = readers[t].reads + 1]]
    /\ UNCHANGED <<file, loader, heap, NotLoader>>

ReaderStep(t) ==
    \/ Stat(t)
    \/ Test(t)
    \/ Parse(t)
    \/ StoreCache(t)
    \/ StoreMtime(t)
    \/ StoreSize(t)
    \/ Return(t)
    \/ NextRequest(t)

\* requests read the configuration in threads of their own (asyncio.to_thread)
NextLoader ==
    \/ Import
    \/ FileChange
    \/ \E t \in Readers : ReaderStep(t)

LoaderSpec == InitLoader /\ [][NextLoader]_vars

\* reads and file changes one after the other: nothing else happens while a
\* thread is inside the method
NextSequential ==
    \/ Import
    \/ FileChange /\ \A t \in Readers : ~Reading(t)
    \/ \E t \in Readers : ReaderStep(t) /\ \A u \in Readers \ {t} : ~Reading(u)

SequentialSpec == InitLoader /\ [][NextSequential]_vars

\* ---------------------------------------------------------------------------
\* A literal term on the search path of the server
\* ---------------------------------------------------------------------------

\* the longest term and the longest line, in characters
MaxTermLen == 3
MaxLineLen == 3

\* a digit, a special character, the backslash and a letter that names a
\* character class after a backslash
Chars == {"5", ".", "\\", "d"}
SpecialChars == {"."}
ClassLetters == {"d"}

Strings(n) == UNION { [1..k -> Chars] : k \in 0..n }

\* RX_PROBABLY_COMPLEX_PATTERN.search(pattern): a special character that no
\* backslash precedes, or a backslash followed by the letter of a class
RX_PROBABLY_COMPLEX_PATTERN_search(pattern) ==
    \E i \in 1..Len(pattern) :
        \/ pattern[i] \in SpecialChars /\ (i = 1 \/ pattern[i - 1] # "\\")
        \/ pattern[i] = "\\" /\ i < Len(pattern) /\ pattern[i + 1] \in ClassLetters

\* RX_ESCAPE_FOLLOWED_BY_SPECIAL.sub('', pattern): every backslash that a
\* special character follows is removed
RECURSIVE RX_ESCAPE_FOLLOWED_BY_SPECIAL_sub(_)
RX_ESCAPE_FOLLOWED_BY_SPECIAL_sub(pattern) ==
    IF pattern = <<>> THEN <<>>
    ELSE IF pattern[1] = "\\" /\ Len(pattern) > 1 /\ pattern[2] \in SpecialChars
    THEN RX_ESCAPE_FOLLOWED_BY_SPECIAL_sub(Tail(pattern))
    ELSE <<pattern[1]>> \o RX_ESCAPE_FOLLOWED_BY_SPECIAL_sub(Tail(pattern))

\* pattern_str in line
In(term, line) ==
    \E i \in 0..(Len(line) - Len(term)) :
        \A j \in 1..Len(term) : line[i + j] = term[j]

\* a request term that is classified as literal, and a line of a file
InitLiteral ==
    /\ NoWorker
    /\ NoTask
    /\ NoBatch
    /\ config = <<>>
    /\ request = <<>>
    /\ response = NoResponse
    /\ method = ""
    /\ NoLoader
    /\ \E term \in Strings(MaxTermLen) \ {<<>>}, line \in Strings(MaxLineLen) :
        /\ ~RX_PROBABLY_COMPLEX_PATTERN_search(term)
        /\ arg = [ term |-> term, line |-> line ]
    /\ ret = NoCall
    /\ client = NoClient
    /\ database = NoDb

NotCall == <<workerVars, handles, fault, taskVars, batchVars, config, request, response, method, loaderVars>>

\* the term goes through the validation as it is (it is compiled only when
\* it is classified as complex) and the scan tests `term in line`
MatchLiteral ==
    /\ "term" \in DOMAIN arg
    /\ ret = NoCall
    /\ ret' = [ fires |-> In(arg.term, arg.line) ]
    /\ UNCHANGED <<arg, client, database, NotCall>>

LiteralSpec == InitLiteral /\ [][MatchLiteral]_vars

\* ---------------------------------------------------------------------------
\* StrftimeResolver.parse_timezone on an offset from UTC
\* ---------------------------------------------------------------------------

HourDigits == 0..23
MinuteDigits == 0..59
Signs == {"+", "-"}

\* int(hours) of the text sHH: the sign applies to the number, and minus zero
\* is zero
IntOf(sign, digits) == IF sign = "-" THEN 0 - digits ELSE digits

\* timedelta(hours=hours, minutes=minutes), in minutes
timedelta(hours, minutes) == hours * 60 + minutes

\* the offset of the tzinfo that parse_timezone returns for the text
\* [UTC]sHH:MM, in minutes
parse_timezone(tz) ==
    LET hours == IntOf(tz.sign, tz.hh)
        minutes == tz.mm * (IF hours < 0 THEN -1 ELSE 1)
    IN  timedelta(hours, minutes)

\* a timezone option of the form sHH:MM or UTCsHH:MM
InitTimezone ==
    /\ NoWorker
    /\ NoTask
    /\ NoBatch
    /\ config = <<>>
    /\ request = <<>>
    /\ response = NoResponse
    /\ method = ""
    /\ NoLoader
    /\ \E utc \in BOOLEAN, sign \in Signs, hh \in HourDigits, mm \in MinuteDigits :
        arg = [ utc |-> utc, sign |-> sign, hh |-> hh, mm |-> mm ]
    /\ ret = NoCall
    /\ client = NoClient
    /\ database = NoDb

ParseTimezone ==
    /\ "sign" \in DOMAIN arg
    /\ ret = NoCall
    /\ ret' = [ offset |-> parse_timezone(arg) ]
    /\ UNCHANGED <<arg, client, database, NotCall>>

TimezoneSpec == InitTimezone /\ [][ParseTimezone]_vars

\* ---------------------------------------------------------------------------
\* StrftimeTemplate.substitute with a timezone option of any form
\* ---------------------------------------------------------------------------

MaxColons == 2

\* a field between the colons of the option: a text int() converts to the
\* number, or a text on which int() raises ValueError
NumberFields == { [numeric |-> TRUE, value |-> n] : n \in {-25, -24, -23, -1, 0, 1, 23, 24, 25, 59, 60, 1440} }
TextFields == { [numeric |-> FALSE, value |-> 0] }

\* the options drawn: the empty option, a known and an unknown zone name, and
\* the texts with one colon or more, given by tz.removeprefix('UTC').split(':')
\* (InitExpansion draws the fields after the first without a sign)
TimezoneTexts ==
    { [colons |-> 0, name |-> nm, fields |-> <<>>] : nm \in {"", "known", "unknown"} }
    \cup { [colons |-> k, name |-> "", fields |-> fs] :
             k \in 1..MaxColons, fs \in UNION { [1..(j + 1) -> NumberFields \cup TextFields] : j \in 1..MaxColons } }

\* the tzinfo None: datetime.astimezone(None) takes the local timezone
LocalTimezone == "local"

\* timezone(offset): ValueError unless -24 h < offset < 24 h
TimezoneRaises(offset) == ~(-1440 < offset /\ offset < 1440)

\* parse_timezone on the text tz: the exception that leaves it (if any), the
\* warnings logged and the tzinfo returned
StrftimeResolver_parse_timezone(tz) ==
    IF tz.colons = 0 /\ tz.name = ""
    THEN [raised |-> "", warnings |-> 0, tzinfo |-> LocalTimezone]
    ELSE IF tz.colons > 0
    THEN IF Len(tz.fields) # 2
         THEN [raised |-> "ValueError", warnings |-> 0, tzinfo |-> LocalTimezone]
         ELSE LET hours == tz.fields[1]
                  minutes == tz.fields[2]
                  offset == timedelta(hours.value, minutes.value * (IF hours.value < 0 THEN -1 ELSE 1))
              IN IF ~hours.numeric \/ ~minutes.numeric \/ TimezoneRaises(offset)
                 THEN [raised |-> "", warnings |-> 1, tzinfo |-> LocalTimezone]
                 ELSE [raised |-> "", warnings |-> 0, tzinfo |-> offset]
    ELSE IF tz.name = "known"
         THEN [raised |-> "", warnings |-> 0, tzinfo |-> tz.name]
         ELSE [raised |-> "", warnings |-> 1, tzinfo |-> LocalTimezone]

\* StrftimeResolver.__getitem__: an exception of parse_timezone leaves
\* substitute; otherwise the path is expanded in the timezone returned
StrftimeResolver_getitem(tz) ==
    LET r == StrftimeResolver_parse_timezone(tz)
    IN IF r.raised # ""
       THEN [raised |-> r.raised, warnings |-> r.warnings, expanded_in |-> ""]
       ELSE [raised |-> "", warnings |-> r.warnings, expanded_in |-> r.tzinfo]

InitExpansion ==
    /\ NoWorker
    /\ NoTask
    /\ NoBatch
    /\ config = <<>>
    /\ request = <<>>
    /\ response = NoResponse
    /\ method = ""
    /\ NoLoader
    /\ \E tz \in TimezoneTexts :
        /\ Len(tz.fields) = (IF tz.colons = 0 THEN 0 ELSE tz.colons + 1)
        /\ \A i \in 2..Len(tz.fields) : tz.fields[i].value >= 0
        /\ arg = [ timezone |-> tz ]
    /\ ret = NoCall
    /\ client = NoClient
    /\ database = NoDb

Substitute ==
    /\ "timezone" \in DOMAIN arg
    /\ ret = NoCall
    /\ ret' = StrftimeResolver_getitem(arg.timezone)
    /\ UNCHANGED <<arg, client, database, NotCall>>

ExpansionSpec == InitExpansion /\ [][Substitute]_vars

\* ---------------------------------------------------------------------------
\* The context windows: one path scanned with before_context and after_context
\* up to MaxContext
\* ---------------------------------------------------------------------------

MaxContext == 2
MaxScanLines == 4
MaxMemberLines == 2

\* the lines of a scan: no term fires, pattern fires, or pattern and
\* except_pattern both fire
ScanLines == { {}, {"pattern"}, {"pattern", "except_pattern"} }

SeqsUpTo(S, n) == UNION { [1..k -> S] : k \in 0..n }

\* one plain file, or one archive of two members
ContextFiles ==
    { << [archive |-> FALSE, members |-> <<ls>>] >> : ls \in SeqsUpTo(ScanLines, MaxScanLines) }
    \cup { << [archive |-> TRUE, members |-> <<l1, l2>>] >> :
             l1 \in SeqsUpTo(ScanLines, MaxMemberLines), l2 \in SeqsUpTo(ScanLines, MaxMemberLines) }

\* the requests: the boundaries in their numeric forms, the context sizes up
\* to MaxContext
ContextArgs ==
    { x \in [discard_before : {"none", "num"}, discard_before_n : 0..MaxLineNumArg,
             discard_after : {"none", "num"}, discard_after_n : 0..MaxLineNumArg,
             before_context : 0..MaxContext, after_context : 0..MaxContext,
             files_with_matches : BOOLEAN] : DrawnArgs(x) }

InitContext ==
    \E x \in ContextArgs, fs \in ContextFiles :
        /\ WorkerStart(x, fs)
        /\ NoTask
        /\ NoBatch
        /\ NoApi

ContextSpec == InitContext /\ [][Next]_vars

\* ---------------------------------------------------------------------------
\* logrep_client.grep: the render loop
\* ---------------------------------------------------------------------------

MaxRecords == 4
MaxRecordNum == 3

\* the records (num, record_type) a stream can hold: a file_path record
\* has num 0, the others the number of their line
StreamRecords ==
    { <<0, RT_file_path>> } \cup ((1..MaxRecordNum) \X {RT_pattern, RT_discard_after})

\* the streams drawn: the first record of a stream that is not empty is the
\* file_path record of its first file
RecordStreams ==
    { rs \in UNION { [1..k -> StreamRecords] : k \in 0..MaxRecords } :
        rs # <<>> => rs[1][2] = RT_file_path }

NotClient == <<workerVars, handles, fault, taskVars, batchVars, config, request, response,
               method, loaderVars, arg, ret, database>>

\* grep before its loop (lines 229-238); header and footer tell whether
\* a.header_template and a.footer_template are set.  printed holds what was
\* printed and the number of the record at which it was printed (0: after the loop)
InitRender ==
    /\ NoWorker
    /\ NoTask
    /\ NoBatch
    /\ config = <<>>
    /\ request = <<>>
    /\ response = NoResponse
    /\ method = ""
    /\ NoLoader
    /\ arg = <<>>
    /\ ret = NoCall
    /\ database = NoDb
    /\ \E h \in BOOLEAN, f \in BOOLEAN, rs \in RecordStreams :
        client = [ header_template |-> h, footer_template |-> f, records |-> rs,
                   pos |-> 0, prev_num |-> 0, header_open |-> FALSE,
                   printed |-> <<>>, done |-> FALSE ]

\* print_footer_if_required
print_footer_if_required(c, at) ==
    IF c.footer_template THEN [ c EXCEPT !.printed = Append(@, <<"footer", at>>) ] ELSE c

\* lines 248-262: the else branch of the loop
RenderLine(c, num, at) ==
    LET c1 == IF c.prev_num # 0 /\ c.prev_num + 1 # num
              THEN [ c EXCEPT !.printed = Append(@, <<"separator", at>>) ]
              ELSE c
    IN [ c1 EXCEPT !.printed = Append(@, <<"line", at>>), !.prev_num = num ]

\* lines 240-247: a file_path record with a header template set
RenderHeader(c, at) ==
    LET c1 == IF c.header_open THEN print_footer_if_required(c, at) ELSE c
    IN [ c1 EXCEPT !.printed = Append(@, <<"header", at>>), !.header_open = TRUE, !.prev_num = 0 ]

\* one iteration of the loop (lines 239-262)
RenderRecord ==
    /\ client # NoClient
    /\ ~client.done
    /\ client.pos < Len(client.records)
    /\ LET at == client.pos + 1
           num == client.records[at][1]
           record_type == client.records[at][2]
           c == [ client EXCEPT !.pos = at ]
       IN client' = IF num = 0 /\ record_type = RT_file_path /\ c.header_template
                    THEN RenderHeader(c, at)
                    ELSE RenderLine(c, num, at)
    /\ UNCHANGED NotClient

\* the loop is over: print_footer_if_required(a) (line 263)
RenderEnd ==
    /\ client # NoClient
    /\ ~client.done
    /\ client.pos = Len(client.records)
    /\ client' = [ print_footer_if_required(client, 0) EXCEPT !.done = TRUE ]
    /\ UNCHANGED NotClient

NextRender == RenderRecord \/ RenderEnd

RenderSpec == InitRender /\ [][NextRender]_vars

\* ---------------------------------------------------------------------------
\* logrep_client.parse_arguments: command line over section over top level
\* ---------------------------------------------------------------------------

MaxCliKeys == 2
MaxTableKeys == 1

\* the options drawn: the context sizes (-B, -A, -C) and one term (-D)
ClientInts == {"before_context", "after_context", "context"}
ClientTerms == {"discard_before"}

\* the keys of a command line or of a table of the configuration file, with
\* their values (a size from 0 to 2, a term that is not empty): a key that is
\* not given is not in the domain (None)
Keys(n) ==
    { kv \in [ints : UNION { [S -> 0..2] : S \in SUBSET ClientInts },
              terms : UNION { [S -> {"x", "y"}] : S \in SUBSET ClientTerms }] :
        Cardinality(DOMAIN kv.ints) + Cardinality(DOMAIN kv.terms) <= n }

\* an optional value: <<>> is None
Get(d, k) == IF k \in DOMAIN d THEN <<d[k]>> ELSE <<>>

\* x or y, where falsy is the falsy value of the type (0 or '')
Or(x, y, falsy) == IF x # <<>> /\ x[1] # falsy THEN x ELSE y

\* kwargs.copy() updated with the keys of the table
Overlay(common, dct) ==
    [ k \in DOMAIN common \cup DOMAIN dct |-> IF k \in DOMAIN dct THEN dct[k] ELSE common[k] ]

\* logrep_client.Settings(**kwargs_for_settings)
client_Settings(common, dct) ==
    [ ints |-> Overlay(common.ints, dct.ints), terms |-> Overlay(common.terms, dct.terms) ]

\* logrep_client.make_profile_to_settings_from_toml_text: the top-level keys
\* are common to every section, the keys of a section's table override them
client_make_profile_to_settings_from_toml_text(toml) ==
    [ section \in {TOP_LEVEL, "s"} |->
        IF section = TOP_LEVEL
        THEN client_Settings(toml.top, [ints |-> <<>>, terms |-> <<>>])
        ELSE client_Settings(toml.top, toml.table) ]

\* parse_arguments: the fields of Arguments that are merged
parse_arguments(args, toml) ==
    LET profile_to_settings == client_make_profile_to_settings_from_toml_text(toml)
        settings == profile_to_settings[IF args.section # "" THEN args.section ELSE TOP_LEVEL]
        context == Or(Get(args.ints, "context"), Get(settings.ints, "context"), 0)
    IN [ discard_before |->
             Or(Get(args.terms, "discard_before"), Get(settings.terms, "discard_before"), ""),
         before_context |->
             Or(Get(args.ints, "before_context"),
                Or(Get(settings.ints, "before_context"), context, 0), 0),
         after_context |->
             Or(Get(args.ints, "after_context"),
                Or(Get(settings.ints, "after_context"), context, 0), 0) ]

InitMerge ==
    /\ NoWorker
    /\ NoTask
    /\ NoBatch
    /\ config = <<>>
    /\ request = <<>>
    /\ response = NoResponse
    /\ method = ""
    /\ NoLoader
    /\ client = NoClient
    /\ database = NoDb
    /\ \E cli \in Keys(MaxCliKeys), table \in Keys(MaxTableKeys), top \in Keys(MaxTableKeys),
          section \in {"", "s"} :
        arg = [ argv |-> [section |-> section, ints |-> cli.ints, terms |-> cli.terms],
                toml |-> [top |-> top, table |-> table] ]
    /\ ret = NoCall

ParseArguments ==
    /\ "argv" \in DOMAIN arg
    /\ ret = NoCall
    /\ ret' = parse_arguments(arg.argv, arg.toml)
    /\ UNCHANGED <<arg, client, database, NotCall>>

MergeSpec == InitMerge /\ [][ParseArguments]_vars

\* ---------------------------------------------------------------------------
\* logrep_client.gen_segments_with_is_match
\* ---------------------------------------------------------------------------

MaxSegmentLine == 4
MaxMatches == 3

\* the lines drawn, as sequences of characters
SegmentLines == UNION { [1..n -> {"a", "b"}] : n \in 0..MaxSegmentLine }

\* pattern.finditer(line): the spans (match.start(), match.end()) of the
\* successive matches, whatever the regex: a match starts where the one
\* before it ended or later, and is not the same span again (a match can be empty)
MatchStreams(line) ==
    { ms \in UNION { [1..k -> (0..Len(line)) \X (0..Len(line))] : k \in 0..MaxMatches } :
        /\ \A i \in 1..Len(ms) : ms[i][1] <= ms[i][2]
        /\ \A i \in 1..(Len(ms) - 1) : ms[i][2] <= ms[i + 1][1] /\ ms[i] # ms[i + 1] }

\* line[i:j]
Slice(line, i, j) == SubSeq(line, i + 1, j)

\* (mutant) the text after the last match is not yielded
RECURSIVE gen_segments_with_is_match_NoTail(_, _, _)
gen_segments_with_is_match_NoTail(line, matches, current_pos) ==
    IF matches = <<>> THEN <<>>
    ELSE LET match == Head(matches)
             before == IF match[1] > current_pos
                       THEN << [is_match |-> FALSE, text |-> Slice(line, current_pos, match[1])] >>
                       ELSE <<>>
         IN before \o << [is_match |-> TRUE, text |-> Slice(line, match[1], match[2])] >>
                   \o gen_segments_with_is_match_NoTail(line, Tail(matches), match[2])

\* gen_segments_with_is_match from current_pos on, matches being the matches
\* that finditer has not yielded yet
RECURSIVE gen_segments_with_is_match(_, _, _)
gen_segments_with_is_match(line, matches, current_pos) ==
    IF matches = <<>>
    THEN IF current_pos < Len(line)
         THEN << [is_match |-> FALSE, text |-> Slice(line, current_pos, Len(line))] >>
         ELSE <<>>
    ELSE LET match == Head(matches)
             before == IF match[1] > current_pos
                       THEN << [is_match |-> FALSE, text |-> Slice(line, current_pos, match[1])] >>
                       ELSE <<>>
         IN before \o << [is_match |-> TRUE, text |-> Slice(line, match[1], match[2])] >>
                   \o gen_segments_with_is_match(line, Tail(matches), match[2])

InitSegments ==
    /\ NoWorker
    /\ NoTask
    /\ NoBatch
    /\ config = <<>>
    /\ request = <<>>
    /\ response = NoResponse
    /\ method = ""
    /\ NoLoader
    /\ client = NoClient
    /\ database = NoDb
    /\ \E line \in SegmentLines : \E ms \in MatchStreams(line) :
        arg = [ segment_line |-> line, finditer |-> ms ]
    /\ ret = NoCall

GenSegments ==
    /\ "finditer" \in DOMAIN arg
    /\ ret = NoCall
    /\ ret' = [ segments |-> gen_segments_with_is_match(arg.segment_line, arg.finditer, 0) ]
    /\ UNCHANGED <<arg, client, database, NotCall>>

SegmentSpec == InitSegments /\ [][GenSegments]_vars

\* ---------------------------------------------------------------------------
\* sqlite_logger.Logger on its database
\* ---------------------------------------------------------------------------

MaxConstructions == 3
MaxRows == 2

\* a value of the column level: an INTEGER or a TEXT, written as its words
\* (the INTEGER 20 is <<"20">>, the TEXT 'Level 25' is <<"Level", "25">>)
Integer(digits) == [ type |-> "INTEGER", words |-> <<digits>> ]
Text(words) == [ type |-> "TEXT", words |-> words ]

\* logging._levelToName for the levels drawn; 25 is no level of the module
LevelNumbers == {"10", "20", "25"}
LevelToName == [ n \in {"10", "20"} |-> IF n = "10" THEN "DEBUG" ELSE "INFO" ]

\* logging.getLevelName: the name of a known number, the number of a known
\* name, and 'Level %s' of anything else
getLevelName(level) ==
    IF level.type = "INTEGER" /\ level.words[1] \in DOMAIN LevelToName
    THEN Text(<<LevelToName[level.words[1]]>>)
    ELSE IF level.type = "TEXT" /\ \E n \in DOMAIN LevelToName : level.words = <<LevelToName[n]>>
    THEN Integer(CHOOSE n \in DOMAIN LevelToName : level.words = <<LevelToName[n]>>)
    ELSE Text(<<"Level">> \o level.words)

\* a value stored in the column level TEXT of the STRICT table: an INTEGER is
\* converted to its text
StoreText(v) == Text(v.words)

\* CREATE TABLE IF NOT EXISTS log (lines 14-20, 32-34); d.level is the type
\* of the column level ("": there is no table log)
create_table_log_if_not_exists(d) ==
    IF d.level = "" THEN [ d EXCEPT !.level = "TEXT", !.rows = <<>> ] ELSE d

\* the rows of log_old inserted into the new table in the order of their ids
MigratedRows(rows) ==
    [ i \in 1..Len(rows) |->
        [ id |-> i, localtime |-> rows[i].localtime,
          level |-> StoreText(getLevelName(rows[i].level)), message |-> rows[i].message ] ]

\* _migrate_column_level_to_level_name_if_required (lines 36-45): the body
\* runs when the table log has a column named level
migrate_column_level_to_level_name_if_required(d) ==
    IF d.level # ""
    THEN [ d EXCEPT !.level = "TEXT", !.rows = MigratedRows(d.rows), !.migrations = @ + 1 ]
    ELSE d

NotDatabase == <<workerVars, handles, fault, taskVars, batchVars, config, request, response,
                 method, loaderVars, arg, ret, client>>

\* the database before the first Logger of the run: without a table log, or
\* with the table of the old schema (level INTEGER) and its rows
InitLogger ==
    /\ NoWorker
    /\ NoTask
    /\ NoBatch
    /\ config = <<>>
    /\ request = <<>>
    /\ response = NoResponse
    /\ method = ""
    /\ NoLoader
    /\ arg = <<>>
    /\ ret = NoCall
    /\ client = NoClient
    /\ \/ database = [ level |-> "", rows |-> <<>>, loggers |-> 0, migrations |-> 0 ]
       \/ \E levels \in UNION { [1..n -> LevelNumbers] : n \in 0..MaxRows } :
            database = [ level |-> "INTEGER",
                         rows |-> [ i \in 1..Len(levels) |->
                                      [ id |-> i, localtime |-> "2025-11-10",
                                        level |-> Integer(levels[i]), message |-> "m" ] ],
                         loggers |-> 0, migrations |-> 0 ]

\* Logger.__init__ (lines 22-30)
Construct ==
    /\ database # NoDb
    /\ database.loggers < MaxConstructions
    /\ database' = [ create_table_log_if_not_exists(
                         migrate_column_level_to_level_name_if_required(database))
                     EXCEPT !.loggers = @ + 1 ]
    /\ UNCHANGED NotDatabase

\* Logger.log (lines 47-54) on a Logger that was constructed
Log ==
    /\ database # NoDb
    /\ database.loggers > 0
    /\ Len(database.rows) < MaxRows
    /\ \E level \in LevelNumbers :
        database' = [ database EXCEPT !.rows =
                        Append(@, [ id |-> Len(@) + 1, localtime |-> "now",
                                    level |-> StoreText(getLevelName(Integer(level))),
                                    message |-> "m" ]) ]
    /\ UNCHANGED NotDatabase

NextLogger == Construct \/ Log

LoggerSpec == InitLogger /\ [][NextLogger]_vars

\* ---------------------------------------------------------------------------
\* Reading the record stream
\* ---------------------------------------------------------------------------

ItemIdx == 1..Len(items)
Kind(i) == items[i][2]
LineNumOf(i) == items[i][1]
Payload(i) == items[i][3]
IsPayload(i) == Kind(i) \in PayloadKinds
IsFilePath(i) == Kind(i) = RT_file_path

\* the path whose scan put item i (0 for the sentinel)
ScanOf(i) == IF trace[i].file = NoName THEN 0 ELSE trace[i].file[1]

\* the logical file a line's text was read from
FileOfText(text) == Name(text[1], text[2])
LineAt(text) == Members(text[1])[text[2]][text[3]]

\* the number of the line within its path, counting through the members of an archive
CumLine(text) ==
    LET ms == Members(text[1])
        before == { <<m, l>> \in (1..Len(ms)) \X (1..MaxLines) : m < text[2] /\ l <= Len(ms[m]) }
    IN Cardinality(before) + text[3]

\* all lines of a path
TextsOf(p) ==
    { t \in {p} \X (1..Len(Members(p))) \X (1..MaxLines) : t[3] <= Len(Members(p)[t[2]]) }

\* the scan of path p is over
Scanned(p) == p < path_i \/ (p = path_i /\ pc \in {"open", "done"})

\* the kinds of the records that carry the given line, in emission order
RECURSIVE KindsFor(_, _)
KindsFor(text, i) ==
    IF i > Len(items) THEN <<>>
    ELSE IF IsPayload(i) /\ Payload(i) = text
         THEN <<Kind(i)>> \o KindsFor(text, i + 1)
         ELSE KindsFor(text, i + 1)

TypeOK ==
    /\ pc \in {"open", "first", "main", "done"}
    /\ path_i \in 0..Len(files)
    /\ Len(trace) = Len(items)
    /\ Len(before_deque) <= a.before_context
    /\ \A i \in ItemIdx : items[i] = None \/ IsFilePath(i) \/ IsPayload(i)

\* ---------------------------------------------------------------------------
\* Claims
\* ---------------------------------------------------------------------------

\* the last line of path p on which the discard_before term fires (0: none)
LastDiscardBeforeLine(p) ==
    LET hits == { CumLine(t) : t \in { u \in TextsOf(p) : "discard_before" \in LineAt(u) } }
    IN IF hits = {} THEN 0 ELSE CHOOSE n \in hits : \A k \in hits : k <= n

\* C1: with a text discard_before, every file scanned (the first and the later
\* ones) gets its discard_before record at the last line of that file on which
\* the term fires, and no discard_before record if the term fires nowhere in it.
C1_DiscardBeforeAtLastMatchOfEachFile ==
    a.discard_before \in {"rx", "str"} =>
        /\ \A i \in ItemIdx :
              Kind(i) = RT_discard_before =>
                  LineNumOf(i) = LastDiscardBeforeLine(Payload(i)[1])
        /\ \A p \in 1..Len(files) :
              (Scanned(p) /\ LastDiscardBeforeLine(p) > 0) =>
                  \E i \in ItemIdx :
                      /\ Kind(i) = RT_discard_before
                      /\ ScanOf(i) = p
                      /\ LineNumOf(i) = LastDiscardBeforeLine(p)

\* C2: with discard_before_line_num=N, N > 0, no first (text-scanning) pass is
\* made and the discard_before record is at exactly line N, whatever the text
\* of the lines.
C2_NumericDiscardBeforeBypassesText ==
    a.discard_before = "num" =>
        /\ pc # "first"
        /\ \A i \in ItemIdx :
              Kind(i) = RT_discard_before => LineNumOf(i) = a.discard_before_n

\* a line the main pass has read and not skipped, on which pattern fires without
\* except_pattern and discard_after fires (as text, or as the numeric boundary)
MatchAndDiscardAfter(r) ==
    /\ ~r.skipped
    /\ "pattern" \in LineAt(r.text)
    /\ ~("except_pattern" \in LineAt(r.text))
    /\ \/ a.discard_after \in {"rx", "str", "num"} /\ "discard_after" \in LineAt(r.text)
       \/ a.discard_after = "num" /\ r.line_num >= a.discard_after_n

\* item i is the last record put by the scan of its path
LastOfItsScan(i) == \A j \in ItemIdx : j > i => ScanOf(j) # ScanOf(i)

\* C3 (as claimed): a line that matches pattern and fires discard_after gets
\* two records, pattern then discard_after, and the discard_after record is the
\* last record of that file.
C3_TwoRecordsPatternThenDiscardAfter ==
    \A k \in 1..Len(reads) :
        MatchAndDiscardAfter(reads[k]) =>
            /\ KindsFor(reads[k].text, 1) = <<RT_pattern, RT_discard_after>>
            /\ \A i \in ItemIdx :
                  (Kind(i) = RT_discard_after /\ Payload(i) = reads[k].text) => LastOfItsScan(i)

\* C3 (amended): unless files_with_matches is set, such a line gets its pattern
\* record immediately followed by its discard_after record (only a
\* discard_before record of the same line may precede the pair), and the
\* discard_after record is the last record of that file.
C3_PatternThenDiscardAfter ==
    ~a.files_with_matches =>
        \A k \in 1..Len(reads) :
            MatchAndDiscardAfter(reads[k]) =>
                /\ KindsFor(reads[k].text, 1) \in
                      { <<RT_pattern, RT_discard_after>>,
                        <<RT_discard_before, RT_pattern, RT_discard_after>> }
                /\ \E i \in ItemIdx :
                      /\ i < Len(items)
                      /\ items[i] = <<reads[k].line_num, RT_pattern, reads[k].text>>
                      /\ items[i + 1] = <<reads[k].line_num, RT_discard_after, reads[k].text>>
                      /\ LastOfItsScan(i + 1)

C3_Witness ==
    /\ ~a.files_with_matches
    /\ pc = "done"
    /\ \E k \in 1..Len(reads) :
          /\ MatchAndDiscardAfter(reads[k])
          /\ KindsFor(reads[k].text, 1) = <<RT_pattern, RT_discard_after>>
          /\ reads[k].text[1] < Len(files)

\* C4: within the records of one file, line_num is non-decreasing in emission order.
C4_LineNumNonDecreasingWithinFile ==
    \A i, j \in ItemIdx :
        (i < j /\ trace[i].file # NoName /\ trace[i].file = trace[j].file) =>
            LineNumOf(i) <= LineNumOf(j)

\* the file_path record that opens the group item i is in (0: none)
GroupOf(i) ==
    LET before == { j \in 1..i : IsFilePath(j) }
    IN IF before = {} THEN 0 ELSE CHOOSE j \in before : \A k \in before : k <= j

\* C5: the stream is grouped by file: every payload record between a file_path
\* record and the next one carries a line of the file that file_path record
\* names (a before-context line of one file is never emitted in a later file).
\* The members of an archive are read as one stream, so the records are held
\* to the path the file_path record names.
C5_GroupedByFile ==
    \A i \in ItemIdx :
        IsPayload(i) =>
            /\ GroupOf(i) # 0
            /\ Payload(GroupOf(i))[1] = Payload(i)[1]

\* C6: the file_path record of a logical file is put exactly once, immediately
\* before the first record put for that file (or on the flush-file-name
\* marker), never for a file for which no record or marker follows, and never
\* on the end-of-stream sentinel.
C6_FilePathOnceBeforeFirstRecord ==
    /\ \A i \in ItemIdx :
          IsFilePath(i) =>
              /\ trace[i].cause # None
              /\ LineNumOf(i) = 0
              /\ Payload(i) = trace[i].file
              /\ \A j \in ItemIdx : (j < i) => trace[j].file # trace[i].file
              /\ \A j \in ItemIdx : (IsFilePath(j) /\ Payload(j) = Payload(i)) => j = i
              /\ \/ trace[i].cause = FLUSH_FILE_NAME
                 \/ /\ i < Len(items)
                    /\ IsPayload(i + 1)
                    /\ items[i + 1] = trace[i].cause
                    /\ trace[i + 1].file = trace[i].file
    /\ \A i \in ItemIdx :
          IsPayload(i) => \E j \in 1..(i - 1) : items[j] = <<0, RT_file_path, trace[i].file>>
    /\ (pc = "done") => (items[Len(items)] = None /\ trace[Len(items)].cause = None)

\* the worker has ended while a file that was opened and produced nothing was
\* pending in que.file_name, after an earlier file had been announced
C6_Witness ==
    /\ pc = "done"
    /\ file_name # NoName
    /\ \E i \in ItemIdx : IsFilePath(i) /\ Payload(i) # file_name
    /\ \E i \in ItemIdx : IsFilePath(i) /\ trace[i].cause = FLUSH_FILE_NAME

\* no predicate of the request fires on a line of path p
NoPredicateFires(p) ==
    \A t \in TextsOf(p) :
        /\ ~("discard_before" \in LineAt(t))
        /\ ~(a.discard_before = "num" /\ CumLine(t) = a.discard_before_n)
        /\ ~("pattern" \in LineAt(t))
        /\ ~("discard_after" \in LineAt(t))
        /\ ~(a.discard_after = "num" /\ CumLine(t) >= a.discard_after_n)

\* C7: a file on no line of which discard_before, pattern or discard_after
\* fires contributes no record (no payload record, no file_path record),
\* whatever happened in the files scanned before it.
C7_NoFiringNoRecord ==
    \A p \in 1..Len(files) :
        NoPredicateFires(p) =>
            \A i \in ItemIdx :
                /\ ScanOf(i) # p
                /\ IsFilePath(i) => Payload(i)[1] # p

\* the logical file named has a line on which pattern fires without except_pattern
HasMatchingLine(name) ==
    \E t \in TextsOf(name[1]) : FileOfText(t) = name /\ IsMatch(LineAt(t))

\* C8: with files_with_matches the stream holds at most one file_path record
\* per logical file, one for each file that has a matching line, and no
\* payload record of any other kind, whatever the other options are.
C8_FilesWithMatchesOnlyFilePaths ==
    a.files_with_matches =>
        \A i \in ItemIdx :
            /\ ~IsPayload(i)
            /\ IsFilePath(i) =>
                  /\ HasMatchingLine(Payload(i))
                  /\ \A j \in ItemIdx : (IsFilePath(j) /\ Payload(j) = Payload(i)) => j = i

\* C9: the scan of a file stops at the first processed line on which
\* discard_after fires: at most one discard_after record per file, it is the
\* last record of the file, no later line of the file is read, and with
\* discard_after_line_num=N the record carries line_num = N.
C9_DiscardAfterEndsScan ==
    \A i \in ItemIdx :
        Kind(i) = RT_discard_after =>
            /\ \A j \in ItemIdx : (Kind(j) = RT_discard_after /\ ScanOf(j) = ScanOf(i)) => j = i
            /\ LastOfItsScan(i)
            /\ \A k \in 1..Len(reads) :
                  (reads[k].text[1] = ScanOf(i)) => reads[k].line_num <= LineNumOf(i)
            /\ (a.discard_after = "num") => (LineNumOf(i) = a.discard_after_n)

\* C10 (as claimed): every member of an archive is scanned as a file of its
\* own: the line counter starts at 1 in every member, and a discard_after in
\* one member ends the scan of that member only.
C10_MemberScannedAsOwnFile ==
    /\ \A i \in ItemIdx : IsPayload(i) => LineNumOf(i) = Payload(i)[3]
    /\ \A i \in ItemIdx :
          (Kind(i) = RT_discard_after /\ Scanned(ScanOf(i))) =>
              \A t \in TextsOf(ScanOf(i)) :
                  (t[2] > Payload(i)[2]) => \E k \in 1..Len(reads) : reads[k].text = t

\* C10 (amended): every member of an archive is announced as a file of its own,
\* but the members are scanned as one stream: unless files_with_matches is
\* set the line counter runs on across the members (line i of a member has
\* the number of lines of the members before it plus i), at most one
\* discard_before record is put for the archive, and a discard_after in one
\* member ends the scan of the whole archive.
C10_MembersScannedAsOneStream ==
    /\ ~a.files_with_matches =>
          /\ \A i \in ItemIdx : IsPayload(i) => LineNumOf(i) = CumLine(Payload(i))
          /\ \A k \in 1..Len(reads) : reads[k].line_num = CumLine(reads[k].text)
    /\ \A i \in ItemIdx :
          (Kind(i) = RT_discard_after /\ files[ScanOf(i)].archive) =>
              /\ LastOfItsScan(i)
              /\ \A k \in 1..Len(reads) :
                    (reads[k].text[1] = ScanOf(i)) => reads[k].line_num <= LineNumOf(i)
    /\ \A i, j \in ItemIdx :
          (Kind(i) = RT_discard_before /\ Kind(j) = RT_discard_before
              /\ ScanOf(i) = ScanOf(j) /\ files[ScanOf(i)].archive) => i = j
    /\ \A i \in ItemIdx :
          (IsPayload(i) /\ files[ScanOf(i)].archive) =>
              \E j \in 1..(i - 1) : items[j] = <<0, RT_file_path, <<ScanOf(i), trace[i].file[2]>>>>

\* a discard_after on the first line of the second member of an archive,
\* numbered on from the first member, has ended the scan with a line unread
C10_Witness ==
    /\ pc = "done"
    /\ files[1].archive
    /\ ~a.files_with_matches
    /\ \E i \in ItemIdx :
          /\ Kind(i) = RT_discard_after
          /\ Payload(i)[2] = 2
          /\ LineNumOf(i) > Payload(i)[3]
          /\ \E t \in TextsOf(1) : t[3] > Payload(i)[3] /\ \A k \in 1..Len(reads) : reads[k].text # t

\* the D records put by the scan of path p
DiscardBeforeRecords(p) == { i \in ItemIdx : Kind(i) = RT_discard_before /\ ScanOf(i) = p }

\* neither pattern nor discard_after fires on a line of path p
OnlyDiscardBeforeFires(p) ==
    /\ a.discard_after # "num"
    /\ \A t \in TextsOf(p) : ~("pattern" \in LineAt(t)) /\ ~("discard_after" \in LineAt(t))

\* C11: when the scanned path is an archive, the line counter runs on across
\* the members (a record of line i of a member carries the number of lines of
\* the members before it plus i; files_with_matches, which reports no lines,
\* set aside), a text discard_before selects the last line of the whole
\* archive on which it fires (one discard_before record for the archive, at
\* that line), and the member holding that line is announced by the file_path
\* record archive#member right before it: no member before it is announced,
\* and it is the only member announced when neither pattern nor discard_after
\* fires in the archive.
C11_ArchiveLastDiscardBeforeOverMembers ==
    \A p \in 1..Len(files) :
        files[p].archive =>
            /\ ~a.files_with_matches =>
                  \A i \in ItemIdx : (IsPayload(i) /\ ScanOf(i) = p) => LineNumOf(i) = CumLine(Payload(i))
            /\ a.discard_before \in {"rx", "str"} =>
                  /\ Cardinality(DiscardBeforeRecords(p)) <= 1
                  /\ (Scanned(p) /\ LastDiscardBeforeLine(p) > 0) => DiscardBeforeRecords(p) # {}
                  /\ \A i \in DiscardBeforeRecords(p) :
                        /\ LineNumOf(i) = LastDiscardBeforeLine(p)
                        /\ CumLine(Payload(i)) = LastDiscardBeforeLine(p)
                        /\ i > 1
                        /\ items[i - 1] = <<0, RT_file_path, <<p, Payload(i)[2]>>>>
                        /\ \A j \in ItemIdx :
                              (IsFilePath(j) /\ Payload(j)[1] = p) =>
                                  Payload(j)[2] >= Payload(i)[2]
                        /\ OnlyDiscardBeforeFires(p) =>
                              \A k \in ItemIdx : ScanOf(k) = p => k \in {i - 1, i}

\* ---- reading the frames ----

\* the number of records in the array of a frame
FrameCount(f) == (Len(f) - 2) \div 8

\* json.loads of a frame: the records of its array
Loads(f) == [ k \in 1..FrameCount(f) |-> <<f[8 * k - 5][2], f[8 * k - 3][2], f[8 * k - 1][2]>> ]

\* the frame is one JSON array of records followed by a newline, and holds no
\* other newline
IsFrame(f) ==
    /\ Len(f) >= 3
    /\ f = Frame(Loads(f))
    /\ \A i \in 1..(Len(f) - 1) : f[i] # NL
    /\ f[Len(f)] = NL

\* the records of the frames 1..n, in order
RECURSIVE Flatten(_, _)
Flatten(fs, n) == IF n = 0 THEN <<>> ELSE Flatten(fs, n - 1) \o Loads(fs[n])

\* the sum of the lengths of the texts of the records l[1..n]
RECURSIVE PayloadSum(_, _)
PayloadSum(l, n) == IF n = 0 THEN 0 ELSE PayloadSum(l, n - 1) + size[l[n][3]]

\* C12: every frame yielded by search_logs is one JSON array of at least one
\* record followed by exactly one newline, and the records of all frames, in
\* order, are the records gen_matching_lines yielded: nothing lost, doubled
\* or reordered (while the stream runs, the frames and the buffer together).
C12_FramesCarryTheRecordStream ==
    /\ \A i \in 1..Len(frames) : IsFrame(frames[i]) /\ FrameCount(frames[i]) >= 1
    /\ task = "waiting" => Flatten(frames, Len(frames)) \o list_of_lists = got
    /\ task = "ended" => Flatten(frames, Len(frames)) = got

\* the stream has ended after a frame flushed at the threshold and a residue
\* frame, one of them with several records
C12_Witness ==
    /\ task = "ended"
    /\ Len(frames) >= 2
    /\ PayloadSum(Loads(frames[Len(frames)]), FrameCount(frames[Len(frames)])) < MINIMUM_SIZE
    /\ \E i \in 1..Len(frames) : FrameCount(frames[i]) >= 2
    /\ Len(got) = MaxStream

\* frame i was flushed at the threshold: its payload lengths sum to at least
\* MINIMUM_SIZE, and without its last record to less
AtThreshold(f) ==
    /\ FrameCount(f) >= 1
    /\ PayloadSum(Loads(f), FrameCount(f)) >= MINIMUM_SIZE
    /\ PayloadSum(Loads(f), FrameCount(f) - 1) < MINIMUM_SIZE

C14_WorkerStopsAtNextPutAfterCancel ==
    [][(task = "joining" /\ Len(items') > Len(items)) =>
          \/ pc' = "done"
          \/ path_i' = Len(files) /\ (pc' = "open" \/ ~HasLine(path_i', member_i', line_i'))]_vars

\* the worker's sentinels
Sentinels == { i \in ItemIdx : items[i] = None }

\* the state part of C15: the worker puts no sentinel before it ends and
\* exactly one, as its last queue item, when it ends; a waiting request task
\* has an item to take or a worker that can take a step; when the stream has
\* ended every record put was yielded, in order, and is in the frames
C15_OneSentinelLast ==
    /\ pc # "done" => Sentinels = {}
    /\ pc = "done" => Sentinels = {Len(items)}
    /\ task = "waiting" => (taken < Len(items) \/ (pc # "done" /\ ENABLED WorkerNext))
    /\ task = "ended" =>
          /\ pc = "done"
          /\ taken = Len(items)
          /\ got \o <<None>> = items
          /\ Flatten(frames, Len(frames)) = got

\* C15: whether the worker ends normally or by an exception, it puts exactly
\* one end-of-stream sentinel, as its last queue item; hence the request
\* task's wait for the next item always returns, every record put before the
\* end (or the error) is delivered, the residue frame included, and the
\* stream ends.
C15_OneSentinelLastAndStreamEnds == []C15_OneSentinelLast /\ <>(task = "ended")

\* the worker raised after it had put records; the stream has ended with the
\* records in a frame flushed at the threshold and a residue frame
C15_Witness ==
    /\ task = "ended"
    /\ fault # NoFault
    /\ Len(got) >= 3
    /\ Len(frames) >= 2
    /\ \E t \in TextsOf(fault[1]) : \A k \in 1..Len(reads) : reads[k].text # t

\* C16: when a member of an archive fails, that member is skipped and the
\* scan goes on: the matching lines of the following members of the archive,
\* and of the following files, get their pattern records.
C16_FailedMemberSkippedScanGoesOn ==
    (/\ pc = "done"
     /\ fault # NoFault
     /\ fault[2] > 0
     /\ files[fault[1]].archive
     /\ a.discard_before = "none" /\ a.discard_after = "none" /\ ~a.files_with_matches) =>
        \A p \in fault[1]..Len(files) :
            \A t \in TextsOf(p) :
                ((p > fault[1] \/ t[2] > fault[2]) /\ IsMatch(LineAt(t))) =>
                    \E i \in ItemIdx : Kind(i) = RT_pattern /\ Payload(i) = t

\* C17: whenever the worker has ended, normally or by an exception, nothing
\* it opened is still open; no handle is held between two paths; while a path
\* is scanned only handles of that path are held, at most one member stream
\* (or plain file) and at most one archive, across rewind too.
C17_HandlesClosedAndOneMemberOpen ==
    /\ pc \in {"done", "open"} => handles = {}
    /\ \A h \in handles : h[2] = path_i
    /\ Cardinality({ h \in handles : h[1] = "file" }) <= 1
    /\ Cardinality({ h \in handles : h[1] = "outer" }) <= 1
    /\ \A h \in handles : (h[1] = "file" /\ files[path_i].archive) => h[3] = member_i

\* the worker raised in the main loop, after the rewind, while it read the
\* second member of an archive
C17_Witness ==
    /\ pc = "done"
    /\ fault # NoFault
    /\ files[fault[1]].archive
    /\ fault[2] = 2
    /\ a.discard_before = "rx"
    /\ \E k \in 1..Len(reads) : reads[k].text[2] = 1

\* s is a prefix of t
IsPrefix(s, t) == Len(s) <= Len(t) /\ \A i \in 1..Len(s) : s[i] = t[i]

\* C18: the records gen_matching_lines yields are, in order, the records the
\* worker put, whatever the interleaving of the two; and a second run of the
\* same request on the same files yields the same sequence (a prefix of it
\* while it runs or when it fails).
C18_YieldedInPutOrderAndRepeatable ==
    /\ IsPrefix(got, items)
    /\ Len(got) <= taken
    /\ task = "ended" => got \o <<None>> = items
    /\ run = 2 =>
          /\ IsPrefix(got, first_got)
          /\ (task = "ended" /\ fault = NoFault) => got = first_got

\* the second run has ended and yielded the records of the first
C18_Witness ==
    /\ run = 2
    /\ task = "ended"
    /\ fault = NoFault
    /\ Len(got) >= 4
    /\ got = first_got

\* ---------------------------------------------------------------------------
\* Reading a request and its answer
\* ---------------------------------------------------------------------------

Answered == request # <<>> /\ response # NoResponse

\* the request names no profile or one the configuration has
ProfileResolves == request.profile = "" \/ request.profile \in DOMAIN config.profiles

\* the table of the selected profile (empty when none is selected)
ProfileTable ==
    IF request.profile \in DOMAIN config.profiles THEN config.profiles[request.profile] ELSE <<>>

\* the request supplies the option: a term that is not empty, a context size
Supplied(k) ==
    k \in DOMAIN request.args /\ (k \in TermOptions => request.args[k] # "")

\* the value after layering request over profile over top-level over default
Effective(k) ==
    IF Supplied(k) THEN request.args[k]
    ELSE IF k \in DOMAIN ProfileTable THEN ProfileTable[k]
    ELSE IF k \in DOMAIN config.common THEN config.common[k]
    ELSE SettingsDefaults[k]

NoPredicate ==
    Effective("discard_before") = "" /\ Effective("pattern") = "" /\ Effective("discard_after") = ""

\* the rules of the validation, each named by what its error reports
Rules ==
    {"profile", "must be specified"} \cup Options

Violates(rule) ==
    IF rule = "profile" THEN ~ProfileResolves
    ELSE IF rule = "must be specified" THEN NoPredicate
    ELSE IF rule \in ContextOptions THEN Effective(rule) < 0
    ELSE Effective(rule) = "bad"

Violated == { rule \in Rules : Violates(rule) }

StatusOf(rule) == IF rule = "profile" THEN 404 ELSE 400

\* the first rule of the order that the request violates
Earliest(order) ==
    order[CHOOSE i \in 1..Len(order) :
            Violates(order[i]) /\ \A j \in 1..(i - 1) : ~Violates(order[j])]

ReportsEarliest(order) ==
    (Answered /\ Violated # {}) =>
        /\ response.detail = Earliest(order)
        /\ response.status_code = StatusOf(Earliest(order))

\* C19 (as stated): when a request violates several rules, the reported error
\* is the earliest in the order unknown profile (404), term compilation
\* failure (400 naming the parameter), empty predicate set (400), negative
\* context size (400).
C19_StatedOrder ==
    ReportsEarliest(<<"profile", "discard_before", "pattern", "except_pattern", "discard_after",
                      "must be specified", "before_context", "after_context">>)

\* C19 (amended): when a request violates several rules, the reported error
\* is the earliest in the order unknown profile (404), negative
\* before_context (400), negative after_context (400), compilation failure of
\* discard_before, pattern, except_pattern, discard_after (400 naming the
\* parameter), empty predicate set (400).
C19_ContextSizesBeforeTerms ==
    ReportsEarliest(<<"profile", "before_context", "after_context", "discard_before", "pattern",
                      "except_pattern", "discard_after", "must be specified">>)

\* a request with a negative context size, a term that does not compile and
\* no predicate is answered with the error of the context size
C19_Witness ==
    /\ Answered
    /\ ProfileResolves
    /\ Violates("after_context")
    /\ Violates("except_pattern")
    /\ Violates("must be specified")
    /\ response.status_code = 400
    /\ response.detail = "after_context"

\* C20 (as stated): a request is rejected with 400 exactly when
\* discard_before, pattern and discard_after are all empty after layering.
C20_RejectedExactlyWhenNoPredicate ==
    (Answered /\ ProfileResolves) => (response.status_code = 400 <=> NoPredicate)

\* C20 (amended): a request whose profile resolves and whose discard_before,
\* pattern and discard_after are all empty after layering is rejected with
\* 400 and no stream starts, whatever its except_pattern and context sizes
\* are; a request whose profile resolves, whose context sizes are not
\* negative and whose terms compile is rejected exactly when the three are
\* all empty, and is else answered 200 with the stream of the layered values.
C20_NoPredicateIsRejected ==
    (Answered /\ ProfileResolves) =>
        /\ NoPredicate => (response.status_code = 400 /\ response.search_args = <<>>)
        /\ (Violated \subseteq {"must be specified"}) =>
            /\ response.status_code = 400 <=> NoPredicate
            /\ response.status_code = 200 <=> ~NoPredicate
            /\ response.status_code = 200 =>
                response.search_args = [ k \in Options |-> Effective(k) ]

\* a request with an except_pattern and a context size, but none of the three
\* predicates, is rejected
C20_Witness ==
    /\ Answered
    /\ ProfileResolves
    /\ NoPredicate
    /\ Effective("except_pattern") = "lit"
    /\ Effective("after_context") = 1
    /\ response.status_code = 400
    /\ response.detail = "must be specified"

\* C21: the value a search runs with is, for every option, the request's
\* value when the request supplies one (an explicit 0 for a context size
\* included), otherwise the value of the selected profile's table, otherwise
\* the top-level value, otherwise the default of the class.
C21_RequestOverProfileOverTopLevel ==
    (Answered /\ response.status_code = 200) =>
        \A k \in Options :
            LET value == response.search_args[k] IN
            /\ Supplied(k) => value = request.args[k]
            /\ (k \in ContextOptions /\ k \in DOMAIN request.args) => value = request.args[k]
            /\ (~Supplied(k) /\ k \in DOMAIN ProfileTable) => value = ProfileTable[k]
            /\ (~Supplied(k) /\ k \notin DOMAIN ProfileTable /\ k \in DOMAIN config.common) =>
                    value = config.common[k]
            /\ (~Supplied(k) /\ k \notin DOMAIN ProfileTable /\ k \notin DOMAIN config.common) =>
                    value = SettingsDefaults[k]

\* a search that runs with the request's explicit 0 although the selected
\* profile sets the context size to 1
C21_Witness ==
    /\ Answered
    /\ response.status_code = 200
    /\ request.profile = "known"
    /\ "before_context" \in DOMAIN request.args
    /\ request.args["before_context"] = 0
    /\ "before_context" \in DOMAIN ProfileTable
    /\ ProfileTable["before_context"] = 1
    /\ response.search_args["before_context"] = 0

\* C22: a request that names a profile starting with a hash, the reserved
\* "#top-level" included, is answered 404 and no search runs with the
\* settings of that profile (unless the configuration does not load or
\* another check rejects the request).
C22_HashProfilesAreNotFound ==
    (Answered /\ startswith_hash(request.profile) /\ response.status_code \notin {400, 500}) =>
        response.status_code = 404

\* the configuration with every key spelled with underscores
Underscored(dct) ==
    [ k \in { replace_hyphens(key) : key \in DOMAIN dct } |->
        dct[CHOOSE key \in DOMAIN dct : replace_hyphens(key) = k] ]

UnderscoredConfig ==
    [ common |-> Underscored(config.common),
      profiles |-> [ p \in DOMAIN config.profiles |-> Underscored(config.profiles[p]) ] ]

\* C23: a configuration that spells option keys with hyphens, at the top
\* level or inside a profile table, gives every request the answer that the
\* same configuration spelled with underscores gives.
C23_HyphenatedKeysAreTheSameOptions ==
    Answered => response = search_logs_get(UnderscoredConfig, request)

\* ---------------------------------------------------------------------------
\* Reading the configuration loader
\* ---------------------------------------------------------------------------

PairOf(l) == <<l.mtime, l.size>>
FilePair == <<file.mtime, file.size>>

\* a thread leaves _get_fresh_profile_to_settings in this step
Completes(t) == readers[t].pc # "done" /\ readers'[t].pc = "done"

\* C24: when reads and file changes happen one after the other, a read parses
\* the file iff there is no cache or the pair (mtime, size) of the file
\* differs from the stored pair; otherwise it returns the cached mapping and
\* changes nothing; after a parse that succeeds the stored pair is the pair
\* of the file the read has stat-ed and the cache is the new mapping.
C24_ReparseIffNoCacheOrPairDiffers ==
    [][ /\ (loader.cache = NoObject /\ loader'.cache # NoObject) =>
            /\ Len(heap') = Len(heap) + 1
            /\ heap'[loader'.cache].ver = file.ver
            /\ PairOf(loader') = FilePair
        /\ \A t \in Readers : Completes(t) =>
            LET b == readers'[t].before
                result == readers'[t].result
                differs == b.loader.cache = NoObject \/ PairOf(b.loader) # FilePair
            IN  /\ result.status_code = 500 => (file.status = "missing" \/ differs)
                /\ result.status_code = 200 =>
                    /\ Len(heap') > Len(b.heap) <=> differs
                    /\ ~differs =>
                        /\ result.mapping = b.loader.cache
                        /\ heap' = b.heap
                        /\ loader' = b.loader
                    /\ differs =>
                        /\ result.mapping = Len(heap')
                        /\ Len(heap') = Len(b.heap) + 1
                        /\ heap'[result.mapping].ver = file.ver
                        /\ loader'.cache = result.mapping
                        /\ PairOf(loader') = FilePair
      ]_vars

\* a read that returned the cached mapping after an earlier read had parsed
\* the changed file
C24_Witness ==
    \E t \in Readers :
        /\ readers[t].pc = "done"
        /\ readers[t].result.status_code = 200
        /\ readers[t].result.mapping = readers[t].before.loader.cache
        /\ readers[t].result.mapping > 1
        /\ heap = readers[t].before.heap

\* the cache passes for fresh although it was parsed from an older content
Stale ==
    /\ loader.cache # NoObject
    /\ file.status = "ok"
    /\ PairOf(loader) = FilePair
    /\ heap[loader.cache].ver # file.ver

\* C25: with requests reading the configuration in threads of their own while
\* the file changes, no interleaving ends in a state where the stored pair
\* (mtime, size) is the pair of the file and the cached mapping was parsed
\* from an older content of the file.
C25_NoStaleCachePassesForFresh ==
    (\A t \in Readers : ~Reading(t)) => ~Stale

\* C26: a mapping that a request has obtained is never changed by a reload:
\* as long as the request lasts, the mapping has the content it had when the
\* request got it.
C26_ObtainedMappingNeverChanges ==
    \A t \in Readers :
        (readers # <<>> /\ readers[t].pc = "done" /\ readers[t].result.status_code = 200) =>
            heap[readers[t].result.mapping].ver = readers[t].result.ver

\* a request holds a mapping and the loader has cached another one since
C26_Witness ==
    /\ readers # <<>>
    /\ \E t \in Readers :
        /\ readers[t].pc = "done"
        /\ readers[t].result.status_code = 200
        /\ loader.cache # readers[t].result.mapping
        /\ heap[loader.cache].ver # readers[t].result.ver

\* C27: a read of a file that is missing, is not TOML or sets an unknown
\* option ends with 500 and leaves the cached mapping and the stored pair as
\* they were; a read of a file that is in order is served with the mapping of
\* the content of the file.
C27_FailedRefreshKeepsCache ==
    [][ \A t \in Readers : Completes(t) =>
            LET b == readers'[t].before
                result == readers'[t].result
            IN  /\ file.status # "ok" =>
                    /\ result.status_code = 500
                    /\ loader' = b.loader
                    /\ heap' = b.heap
                /\ file.status = "ok" =>
                    /\ result.status_code = 200
                    /\ heap'[result.mapping].ver = file.ver
      ]_vars

\* a request is served with the content of the repaired file after another
\* one got 500
C27_Witness ==
    /\ readers # <<>>
    /\ \E t, u \in Readers :
        /\ readers[u].pc = "done"
        /\ readers[u].result.status_code = 500
        /\ readers[t].pc = "done"
        /\ readers[t].result.status_code = 200
        /\ readers[t].result.ver = file.ver
        /\ file.ver > 2

\* C28: a term that is classified as literal fires on exactly the lines that
\* contain the term with every backslash before a special character removed
\* (the term 5\. fires on the lines that contain 5.).
C28_LiteralIsMatchedUnescaped ==
    (ret # NoCall /\ "term" \in DOMAIN arg) =>
        (ret.fires <=> In(RX_ESCAPE_FOLLOWED_BY_SPECIAL_sub(arg.term), arg.line))

\* C29: a POST is answered like the GET that carries the same keys and
\* values: the same status code and a search on the same values, for every
\* key, before_context included.
C29_PostIsAnsweredLikeGet ==
    (Answered /\ method = "POST") =>
        /\ response.status_code = search_logs_get(config, request).status_code
        /\ response.search_args = search_logs_get(config, request).search_args

\* C30: for every offset sHH:MM or UTCsHH:MM, HH = 00 included, the resolved
\* offset is s x (HH*60 + MM) minutes: the minutes take the sign written
\* before HH.
C30_MinutesTakeTheWrittenSign ==
    (ret # NoCall /\ "sign" \in DOMAIN arg) =>
        ret.offset = (IF arg.sign = "-" THEN -1 ELSE 1) * (arg.hh * 60 + arg.mm)

\* the records put in the step
NewItems == SubSeq(items', Len(items) + 1, Len(items'))

\* the number of before_context records that immediately precede record i
RECURSIVE BeforeRun(_)
BeforeRun(i) ==
    IF i > 1 /\ Kind(i - 1) = RT_before_context THEN 1 + BeforeRun(i - 1) ELSE 0

\* C35: the before buffer never holds more than before_context entries; a
\* step that puts a pattern record puts the entries of the buffer, oldest
\* first, immediately before it and leaves the buffer empty; at most
\* before_context before_context records immediately precede a pattern
\* record, and with before_context = 0 there is no before_context record.
C35_BeforeBuffer ==
    /\ [](Len(before_deque) <= a.before_context)
    /\ [](\A i \in ItemIdx : Kind(i) = RT_pattern => BeforeRun(i) <= a.before_context)
    /\ [](a.before_context = 0 => \A i \in ItemIdx : Kind(i) # RT_before_context)
    /\ [][\A j \in (Len(items) + 1)..Len(items') :
            items'[j][2] = RT_pattern =>
                /\ j - Len(before_deque) > Len(items)
                /\ SubSeq(items', j - Len(before_deque), j - 1) = before_deque
                /\ \A k \in (Len(items) + 1)..(j - Len(before_deque) - 1) :
                       items'[k][2] # RT_before_context
                /\ before_deque' = <<>>]_vars

\* a pattern record that follows the two entries of a full buffer of two,
\* which is empty afterwards; a line before them had left the buffer
C35_Witness ==
    /\ a.before_context = 2
    /\ before_deque = <<>>
    /\ Len(items) >= 4
    /\ Kind(Len(items)) = RT_pattern
    /\ LineNumOf(Len(items)) = 4
    /\ BeforeRun(Len(items)) = 2
    /\ LineNumOf(Len(items) - 2) = 2
    /\ LineNumOf(Len(items) - 1) = 3

\* the lines the main loop has read and not skipped
ReadIdx == { k \in 1..Len(reads) : ~reads[k].skipped }
ReadMatches(k) == IsMatch(LineAt(reads[k].text))

\* two lines belong to one scan: to one logical file (perFile) or to one path
SameScan(t, u, perFile) == IF perFile THEN FileOfText(t) = FileOfText(u) ELSE t[1] = u[1]

\* the matches that open an after-context window in which the k-th read lies:
\* a match of the same scan not more than after_context lines back, with no
\* match in between
OpeningMatches(k, perFile) ==
    { m \in ReadIdx :
        /\ m < k
        /\ k - m <= a.after_context
        /\ SameScan(reads[m].text, reads[k].text, perFile)
        /\ ReadMatches(m)
        /\ \A j \in (m + 1)..(k - 1) : ~ReadMatches(j) }

AfterRecords(t) == { i \in ItemIdx : Kind(i) = RT_after_context /\ Payload(i) = t }

\* the pattern records put before record i
PatternsBefore(i) == { j \in 1..(i - 1) : Kind(j) = RT_pattern }

\* after_context records are exactly the records of the non-matching lines
\* inside a window, one for each, each after the pattern record that opened its
\* window and before any later pattern record
AfterWindows(perFile) ==
    /\ \A i \in ItemIdx : Kind(i) = RT_after_context =>
           \E k \in ReadIdx : reads[k].text = Payload(i) /\ reads[k].line_num = LineNumOf(i)
    /\ \A k \in ReadIdx :
           LET t == reads[k].text
               open == OpeningMatches(k, perFile)
           IN IF ~ReadMatches(k) /\ ~a.files_with_matches /\ open # {}
              THEN /\ Cardinality(AfterRecords(t)) = 1
                   /\ \A i \in AfterRecords(t) : \A m \in open :
                          /\ PatternsBefore(i) # {}
                          /\ \E j \in PatternsBefore(i) :
                                 /\ Payload(j) = reads[m].text
                                 /\ \A h \in PatternsBefore(i) : h <= j
              ELSE AfterRecords(t) = {}

\* C36 (as stated): the windows are those of the logical file: no after_context
\* record is emitted before the first match of a file.
C36_AfterWindowOfFile == AfterWindows(TRUE)

\* C36 (amended): after each pattern record the non-matching lines that follow
\* it in the scan of the path are emitted as after_context records until
\* after_context of them have been emitted or the next match or the end of the
\* scan; a new match restarts the count; no after_context record is emitted
\* before the first match of a path or when after_context = 0.
C36_AfterWindowOfPath == AfterWindows(FALSE)

\* a window of two that closed: lines 2 and 3 follow the match at line 1 as
\* after_context records, line 4 was read and is not emitted
C36_Witness ==
    /\ a.after_context = 2
    /\ ~files[1].archive
    /\ Len(reads) = 4
    /\ ReadIdx = 1..4
    /\ ReadMatches(1) /\ \A k \in 2..4 : ~ReadMatches(k)
    /\ \A k \in 2..3 : AfterRecords(reads[k].text) # {}
    /\ AfterRecords(reads[4].text) = {}

BeforeRecords(t) == { i \in ItemIdx : Kind(i) = RT_before_context /\ Payload(i) = t }

\* C37: no line is emitted twice as context: a line that has an after_context
\* record has no before_context record.
C37_NoLineTwiceAsContext ==
    \A k \in 1..Len(reads) :
        AfterRecords(reads[k].text) = {} \/ BeforeRecords(reads[k].text) = {}

\* the line read in the step, and whether pattern and except_pattern both fire on it
LastRead == reads'[Len(reads')]
BothFire(line) == "pattern" \in line /\ "except_pattern" \in line

\* C38: a line on which pattern and except_pattern both fire gets no pattern
\* record and does not restart the after-context count; it is handled as a
\* non-matching line: it enters the before buffer and, inside an open
\* after-context window, it is emitted as after_context and counted.
C38_ExceptLineIsNonMatching ==
    /\ [](\A i \in ItemIdx : Kind(i) = RT_pattern => ~BothFire(LineAt(Payload(i))))
    /\ [][(Len(reads') > Len(reads) /\ ~LastRead.skipped /\ BothFire(LineAt(LastRead.text))) =>
            /\ \A j \in (Len(items) + 1)..Len(items') : items'[j][2] # RT_pattern
            /\ match_found' => match_found
            /\ lines_after' = IF match_found /\ lines_after < a.after_context
                              THEN lines_after + 1 ELSE lines_after
            /\ (match_found /\ lines_after < a.after_context) =>
                   \E j \in (Len(items) + 1)..Len(items') :
                       items'[j] = <<LastRead.line_num, RT_after_context, LastRead.text>>
            /\ a.before_context > 0 =>
                   /\ before_deque' # <<>>
                   /\ before_deque'[Len(before_deque')] =
                          <<LastRead.line_num, RT_before_context, LastRead.text>>]_vars

\* the second line, on which both terms fire, was read inside the window of
\* the match at line 1: it is the second record of the window's count of two
\* after the first, and it is in the before buffer
C38_Witness ==
    /\ a.after_context = 2
    /\ a.before_context = 2
    /\ Len(reads) = 3
    /\ ReadMatches(1)
    /\ LineAt(reads[2].text) = {}
    /\ BothFire(LineAt(reads[3].text))
    /\ AfterRecords(reads[3].text) # {}
    /\ lines_after = 2
    /\ before_deque = << <<2, RT_before_context, reads[2].text>>, <<3, RT_before_context, reads[3].text>> >>

\* a timezone option that is neither a known zone name nor a well-formed offset
Malformed(tz) ==
    \/ tz.colons = 0 /\ tz.name = "unknown"
    \/ tz.colons > 1
    \/ tz.colons = 1 /\ \/ ~tz.fields[1].numeric
                        \/ ~tz.fields[2].numeric
                        \/ LET hh == tz.fields[1].value
                               mm == tz.fields[2].value
                           IN ~((IF hh < 0 THEN hh * 60 - mm ELSE hh * 60 + mm) \in -1439..1439)

\* C31: for every timezone option that is neither a known zone name nor a
\* well-formed offset (a non-numeric hour or minute, more than one colon, an
\* offset out of range) the expansion of the path does not fail: one warning
\* is logged and the path is expanded in the local timezone.
C31_MalformedTimezoneFallsBackToLocal ==
    (ret # NoCall /\ "timezone" \in DOMAIN arg /\ Malformed(arg.timezone)) =>
        /\ ret.raised = ""
        /\ ret.warnings = 1
        /\ ret.expanded_in = LocalTimezone

\* what the client printed
Printed(what) == { k \in 1..Len(client.printed) : client.printed[k][1] = what }

\* the separator was printed at the record at
SeparatorAt(at) == \E k \in Printed("separator") : client.printed[k][2] = at

Distance(m, n) == IF m < n THEN n - m ELSE m - n

\* C32: the separator -- is printed between two consecutively received records
\* iff their line numbers differ by more than one and the later record is not
\* a file_path record, with or without a header template.
C32_SeparatorIffGap ==
    client # NoClient =>
        \A at \in 2..client.pos :
            SeparatorAt(at) <=>
                /\ Distance(client.records[at - 1][1], client.records[at][1]) > 1
                /\ client.records[at][2] # RT_file_path

\* C39: with a header and a footer template set, a footer is printed only to
\* close a header that is open, and when the stream has been rendered as many
\* footers as headers have been printed.
C39_FootersPairedWithHeaders ==
    (client # NoClient /\ client.header_template /\ client.footer_template) =>
        /\ Cardinality(Printed("footer")) <= Cardinality(Printed("header"))
        /\ client.done => Cardinality(Printed("footer")) = Cardinality(Printed("header"))

\* the value of an option by the stated precedence: the command line's when
\* one is given, otherwise the selected section's, otherwise the top level's
ByPrecedence(kind, k) ==
    IF k \in DOMAIN arg.argv[kind] THEN <<arg.argv[kind][k]>>
    ELSE IF arg.argv.section # "" /\ k \in DOMAIN arg.toml.table[kind] THEN <<arg.toml.table[kind][k]>>
    ELSE Get(arg.toml.top[kind], k)

\* no value and the falsy value of the type ask for the same search
SameSetting(x, y, falsy) ==
    (IF x = <<>> THEN <<falsy>> ELSE x) = (IF y = <<>> THEN <<falsy>> ELSE y)

\* -C / context is given nowhere
NoContextGiven ==
    /\ "context" \notin DOMAIN arg.argv.ints
    /\ "context" \notin DOMAIN arg.toml.table.ints
    /\ "context" \notin DOMAIN arg.toml.top.ints

\* C33: the effective value of an option is the command line's when one is
\* given (a numeric 0 such as -B 0 or -A 0 included), otherwise the selected
\* section's, otherwise the top level's.
C33_CommandLineOverSectionOverTopLevel ==
    (ret # NoCall /\ "argv" \in DOMAIN arg /\ NoContextGiven) =>
        /\ SameSetting(ret.before_context, ByPrecedence("ints", "before_context"), 0)
        /\ SameSetting(ret.after_context, ByPrecedence("ints", "after_context"), 0)
        /\ SameSetting(ret.discard_before, ByPrecedence("terms", "discard_before"), "")

RECURSIVE Concat(_)
Concat(segs) == IF segs = <<>> THEN <<>> ELSE Head(segs).text \o Concat(Tail(segs))

MatchSegments(segs) == SelectSeq(segs, LAMBDA sg : sg.is_match)

UpToDate ==
    /\ database.level = "TEXT"
    /\ \A i \in 1..Len(database.rows) :
           \E n \in DOMAIN LevelToName : database.rows[i].level = Text(<<LevelToName[n]>>)

\* C40: constructing a Logger on an up-to-date database leaves every row
\* (id, localtime, level, message) unchanged, and the migration runs at most
\* once over any sequence of constructions.
C40_ConstructionIsIdempotent ==
    /\ [][(database # NoDb /\ UpToDate /\ database'.loggers > database.loggers) =>
              database'.rows = database.rows]_vars
    /\ [](database # NoDb => database.migrations <= 1)

====
